---- MODULE Spec2Model ----
(***************************************************************************)
(* blitzdrill: the PGN-to-tree parser of src/lib/chess.ts (parsePgnToTree, *)
(* tokenize, buildTree) and its tree queries (getLeafNodes, getAllLines,   *)
(* findNodeById, getPathToNode, findNextUnplayedLine), and the session of   *)
(* src/App.vue (study selection, edit mode, drill mode and its delayed     *)
(* callbacks).                                                             *)
(*                                                                         *)
(* Text is a sequence of one-character strings, so that the regular        *)
(* expressions of parsePgnToTree and the character loop of tokenize are    *)
(* computed as the code computes them.  A node of the tree is a handle     *)
(* (its index in `nodes`, the root is handle 1): object identity is the    *)
(* handle, never the `id` field, because generateId draws ids at random    *)
(* and two nodes may carry the same id.  `app` holds the refs of App.vue   *)
(* and the callbacks pending; `sync` holds the refs of a second session    *)
(* that runs every callback at the moment it is set (RefineSpec only);     *)
(* `store` holds the collection of studies, the entry of localStorage and  *)
(* the clock.                                                              *)
(***************************************************************************)
EXTENDS Integers, Sequences, FiniteSets, TLC

VARIABLES pgn, pc, nodes, stack, ret, tk, app, sync, store

vars == <<pgn, pc, nodes, stack, ret, tk, app, sync, store>>

(***************************************************************************)
(* Bounds of the model.                                                    *)
(***************************************************************************)
\* longest token sequence of the exhaustively enumerated PGN texts
MaxTokens == 4
\* longest character string given to the tokenizer alone
MaxChars == 5
\* most nodes of one tree whose generated id is empty or repeats an earlier id
MaxIrregularIds == 1

(***************************************************************************)
(* Characters and text.                                                    *)
(***************************************************************************)
Digits == {"0", "1", "2", "3", "4", "5", "6", "7", "8", "9"}

\* the characters \s matches (those the inputs use)
Whitespace == {" ", "\n", "\t"}

IsDigit(c) == c \in Digits

IsSpace(c) == c \in Whitespace

\* does text s continue with the literal w at (1-based) position p
StartsWithAt(s, p, w) ==
    /\ p + Len(w) - 1 <= Len(s)
    /\ \A k \in 1..Len(w) : s[p + k - 1] = w[k]

\* first position >= p of s that holds character c, or 0
RECURSIVE IndexOfFrom(_, _, _)
IndexOfFrom(s, c, p) ==
    IF p > Len(s) THEN 0
    ELSE IF s[p] = c THEN p
    ELSE IndexOfFrom(s, c, p + 1)

\* first position >= p of s whose character is not in class, or Len(s) + 1
RECURSIVE SkipClass(_, _, _)
SkipClass(s, class, p) ==
    IF p > Len(s) THEN p
    ELSE IF s[p] \in class THEN SkipClass(s, class, p + 1)
    ELSE p

\* .replace(/\{[\s\S]*?\}/g, ''): every "{" up to the first "}" after it
RECURSIVE RemoveCommentsFrom(_, _, _)
RemoveCommentsFrom(s, p, acc) ==
    IF p > Len(s) THEN acc
    ELSE IF s[p] = "{" /\ IndexOfFrom(s, "}", p + 1) # 0
         THEN RemoveCommentsFrom(s, IndexOfFrom(s, "}", p + 1) + 1, acc)
         ELSE RemoveCommentsFrom(s, p + 1, Append(acc, s[p]))

RemoveComments(s) == RemoveCommentsFrom(s, 1, <<>>)

\* .replace(/\$\d+/g, ''): "$" and the digits after it, when there is one
RECURSIVE RemoveNAGsFrom(_, _, _)
RemoveNAGsFrom(s, p, acc) ==
    IF p > Len(s) THEN acc
    ELSE IF s[p] = "$" /\ p + 1 <= Len(s) /\ IsDigit(s[p + 1])
         THEN RemoveNAGsFrom(s, SkipClass(s, Digits, p + 1), acc)
         ELSE RemoveNAGsFrom(s, p + 1, Append(acc, s[p]))

RemoveNAGs(s) == RemoveNAGsFrom(s, 1, <<>>)

\* .replace(/\d+\.+/g, ' '): digits followed by one or more dots become a space
RECURSIVE RemoveMoveNumbersFrom(_, _, _)
RemoveMoveNumbersFrom(s, p, acc) ==
    IF p > Len(s) THEN acc
    ELSE IF /\ IsDigit(s[p])
            /\ SkipClass(s, Digits, p) <= Len(s)
            /\ s[SkipClass(s, Digits, p)] = "."
         THEN RemoveMoveNumbersFrom(
                  s, SkipClass(s, {"."}, SkipClass(s, Digits, p)), Append(acc, " "))
         ELSE RemoveMoveNumbersFrom(s, p + 1, Append(acc, s[p]))

RemoveMoveNumbers(s) == RemoveMoveNumbersFrom(s, 1, <<>>)

\* .replace(/\s+/g, ' '): every run of whitespace becomes one space
RECURSIVE CollapseWhitespaceFrom(_, _, _)
CollapseWhitespaceFrom(s, p, acc) ==
    IF p > Len(s) THEN acc
    ELSE IF IsSpace(s[p])
         THEN CollapseWhitespaceFrom(s, SkipClass(s, Whitespace, p), Append(acc, " "))
         ELSE CollapseWhitespaceFrom(s, p + 1, Append(acc, s[p]))

CollapseWhitespace(s) == CollapseWhitespaceFrom(s, 1, <<>>)

\* .replace(/1-0|0-1|1\/2-1\/2|\*/g, ''): the alternatives are tried in order
RECURSIVE RemoveResultsFrom(_, _, _)
RemoveResultsFrom(s, p, acc) ==
    IF p > Len(s) THEN acc
    ELSE IF StartsWithAt(s, p, <<"1", "-", "0">>)
         THEN RemoveResultsFrom(s, p + 3, acc)
    ELSE IF StartsWithAt(s, p, <<"0", "-", "1">>)
         THEN RemoveResultsFrom(s, p + 3, acc)
    ELSE IF StartsWithAt(s, p, <<"1", "/", "2", "-", "1", "/", "2">>)
         THEN RemoveResultsFrom(s, p + 7, acc)
    ELSE IF s[p] = "*"
         THEN RemoveResultsFrom(s, p + 1, acc)
    ELSE RemoveResultsFrom(s, p + 1, Append(acc, s[p]))

RemoveResults(s) == RemoveResultsFrom(s, 1, <<>>)

\* last position of s that is not whitespace, or 0
RECURSIVE LastNonSpace(_, _)
LastNonSpace(s, p) ==
    IF p = 0 THEN 0
    ELSE IF IsSpace(s[p]) THEN LastNonSpace(s, p - 1)
    ELSE p

\* .trim()
Trim(s) == SubSeq(s, SkipClass(s, Whitespace, 1), LastNonSpace(s, Len(s)))

\* the cleaning pre-pass of parsePgnToTree, in the order of the code
cleanPgn(text) ==
    Trim(RemoveResults(CollapseWhitespace(
        RemoveMoveNumbers(RemoveNAGs(RemoveComments(text))))))

(***************************************************************************)
(* tokenize: one pass over the characters.  tokStep is the body of the     *)
(* for loop, tokFinish the statement after it.                             *)
(***************************************************************************)
tokInit == [tokens |-> <<>>, current |-> <<>>]

tokStep(st, char) ==
    IF char = "(" \/ char = ")" \/ char = " "
    THEN LET t1 == IF st.current # <<>> THEN Append(st.tokens, st.current)
                   ELSE st.tokens
             t2 == IF char # " " THEN Append(t1, <<char>>) ELSE t1
         IN  [tokens |-> t2, current |-> <<>>]
    ELSE [tokens |-> st.tokens, current |-> Append(st.current, char)]

\* tokFinish without the flush of the last token
tokFinishNoFlush(st) == st.tokens

tokFinish(st) ==
    IF st.current # <<>> THEN Append(st.tokens, st.current) ELSE st.tokens

RECURSIVE tokLoop(_, _, _)
tokLoop(str, i, st) ==
    IF i >= Len(str) THEN st
    ELSE tokLoop(str, i + 1, tokStep(st, str[i + 1]))

tokenize(str) == tokFinish(tokLoop(str, 0, tokInit))

(***************************************************************************)
(* The move evaluator (chess.js, consumed through `new Chess()`,           *)
(* `new Chess(fen)`, game.move and game.fen).  It is chess restricted to   *)
(* the moves e4, d4, e5, d5 and Nf3 of either side: with these moves       *)
(* nothing is ever captured, no king is ever attacked and the squares a    *)
(* double pawn step passes over stay empty, so a move is legal exactly     *)
(* when its piece stands on the move's origin and the destination is       *)
(* empty.  A position is what a FEN encodes: the side to move, the         *)
(* placement, the halfmove clock and the move number (no en-passant        *)
(* capture is ever possible here).                                         *)
(***************************************************************************)
Pieces == {"wE", "wD", "wN", "bE", "bD"}

StartPosition ==
    [turn |-> "w",
     at   |-> [wE |-> "e2", wD |-> "d2", wN |-> "g1", bE |-> "e7", bD |-> "d7"],
     half |-> 0,
     full |-> 1]

\* the value of MoveNode.move for the root, and of a rejected game.move
NullMove ==
    [color |-> "", piece |-> "", from |-> "", to |-> "", san |-> <<>>, lan |-> ""]

MoveTable ==
    { [color |-> "w", piece |-> "wE", from |-> "e2", to |-> "e4",
       san |-> <<"e", "4">>, lan |-> "e2e4"],
      [color |-> "w", piece |-> "wE", from |-> "e4", to |-> "e5",
       san |-> <<"e", "5">>, lan |-> "e4e5"],
      [color |-> "w", piece |-> "wD", from |-> "d2", to |-> "d4",
       san |-> <<"d", "4">>, lan |-> "d2d4"],
      [color |-> "w", piece |-> "wD", from |-> "d4", to |-> "d5",
       san |-> <<"d", "5">>, lan |-> "d4d5"],
      [color |-> "w", piece |-> "wN", from |-> "g1", to |-> "f3",
       san |-> <<"N", "f", "3">>, lan |-> "g1f3"],
      [color |-> "b", piece |-> "bE", from |-> "e7", to |-> "e5",
       san |-> <<"e", "5">>, lan |-> "e7e5"],
      [color |-> "b", piece |-> "bE", from |-> "e5", to |-> "e4",
       san |-> <<"e", "4">>, lan |-> "e5e4"],
      [color |-> "b", piece |-> "bD", from |-> "d7", to |-> "d5",
       san |-> <<"d", "5">>, lan |-> "d7d5"],
      [color |-> "b", piece |-> "bD", from |-> "d5", to |-> "d4",
       san |-> <<"d", "4">>, lan |-> "d5d4"] }

Occupied(pos, sq) == \E p \in Pieces : pos.at[p] = sq

\* game.moves({verbose: true})
legalMoves(pos) ==
    { m \in MoveTable :
        /\ m.color = pos.turn
        /\ pos.at[m.piece] = m.from
        /\ ~Occupied(pos, m.to) }

\* the position after a legal move
makeMove(pos, m) ==
    [turn |-> IF pos.turn = "w" THEN "b" ELSE "w",
     at   |-> [pos.at EXCEPT ![m.piece] = m.to],
     half |-> IF m.piece = "wN" THEN pos.half + 1 ELSE 0,
     full |-> IF pos.turn = "b" THEN pos.full + 1 ELSE pos.full]

\* chess.js drops the decorations at the end of a move text before matching
Decorations == {"+", "#", "!", "?"}

RECURSIVE strippedSan(_)
strippedSan(token) ==
    IF token # <<>> /\ token[Len(token)] \in Decorations
    THEN strippedSan(SubSeq(token, 1, Len(token) - 1))
    ELSE token

\* a game object: the position and the moves made on this object
newChess == [pos |-> StartPosition, history |-> <<>>]

\* new Chess(fen): the position of the FEN, no history
chessFromFen(fen) == [pos |-> fen, history |-> <<>>]

\* game.fen()
gameFen(game) == game.pos

\* the move game.move(token) would make, NullMove when it rejects the token
\* (returns null or throws: buildTree skips the token either way)
sanMove(game, token) ==
    LET ms == { m \in legalMoves(game.pos) : m.san = strippedSan(token) }
    IN  IF ms = {} THEN NullMove ELSE CHOOSE m \in ms : TRUE

\* the move game.move(descriptor) would make: the legal move with that
\* origin and destination, NullMove when there is none
objMove(game, d) ==
    LET ms == { m \in legalMoves(game.pos) : m.from = d.from /\ m.to = d.to }
    IN  IF ms = {} THEN NullMove ELSE CHOOSE m \in ms : TRUE

\* the game after game.move made the legal move m: the history keeps the
\* move and the position it was made in
applyMove(game, m) ==
    [pos |-> makeMove(game.pos, m),
     history |-> Append(game.history, [move |-> m, before |-> game.pos])]

\* the game after game.undo(): the last move of the history is taken back
undoMove(game) ==
    IF game.history = <<>> THEN game
    ELSE [pos |-> game.history[Len(game.history)].before,
          history |-> SubSeq(game.history, 1, Len(game.history) - 1)]

(***************************************************************************)
(* The move tree.  `nodes` holds the MoveNode objects in creation order;   *)
(* children and parent are handles, NoNode is null.                        *)
(***************************************************************************)
NoNode == 0

RootNode == 1

\* parsePgnToTree's root object
rootRecord ==
    [id |-> "root", move |-> NullMove, san |-> <<>>, fen |-> gameFen(newChess),
     children |-> <<>>, parent |-> NoNode, isMainLine |-> TRUE]

Handles(T) == 1..Len(T)

\* generateId: Math.random().toString(36).substring(2, 9) is a string of at
\* most seven characters of 0-9a-z: it may be empty (Math.random() = 0), and
\* it may repeat the id of an earlier node.  Ids are opaque, so one unused
\* string stands for every unused outcome.
freshId(T) == ToString(Len(T))

\* the nodes whose id is not the unused string drawn for them
irregularIds(T) == { h \in 2..Len(T) : T[h].id # ToString(h - 1) }

generateId(T) ==
    IF Cardinality(irregularIds(T)) < MaxIrregularIds
    THEN {""} \cup { T[h].id : h \in 2..Len(T) } \cup { freshId(T) }
    ELSE { freshId(T) }

(***************************************************************************)
(* buildTree.  `stack` holds one frame per running invocation, the last    *)
(* one is the innermost: its token sequence, loop index i, parentNode,     *)
(* currentParent, game object and isMainLine flag.  Each operator below is *)
(* one iteration of the while loop of the innermost invocation, or its     *)
(* return.                                                                 *)
(***************************************************************************)
LeftParen == <<"(">>

RightParen == <<")">>

newFrame(tokens, parentNode, game, isMainLine) ==
    [tokens |-> tokens, i |-> 0, parentNode |-> parentNode,
     currentParent |-> parentNode, game |-> game, isMainLine |-> isMainLine]

Top(st) == st[Len(st)]

Pop(st) == SubSeq(st, 1, Len(st) - 1)

SetTop(st, f) == [st EXCEPT ![Len(st)] = f]

\* tokens[i] of the innermost invocation (i counts from 0)
curToken(st) == Top(st).tokens[Top(st).i + 1]

inLoop(st) == st # <<>> /\ Top(st).i < Len(Top(st).tokens)

\* the scan for the matching ")": the value of j when the inner while ends
RECURSIVE scanClose(_, _, _)
scanClose(tokens, j, depth) ==
    IF j < Len(tokens) /\ depth > 0
    THEN scanClose(tokens, j + 1,
                   IF tokens[j + 1] = LeftParen THEN depth + 1
                   ELSE IF tokens[j + 1] = RightParen THEN depth - 1
                   ELSE depth)
    ELSE j

\* Array.prototype.slice(from, to) for 0 <= from, 0 <= to <= length
slice(s, from, to) == SubSeq(s, from + 1, to)

\* variationTokens keeping the token before index j
variationTokensToJ(tokens, i, j) == slice(tokens, i + 1, j)

\* tokens.slice(i + 1, j - 1)
variationTokens(tokens, i, j) == slice(tokens, i + 1, j - 1)

\* stepVariation without i = j
stepVariationStay(T, st) ==
    LET f  == Top(st)
        j  == scanClose(f.tokens, f.i + 1, 1)
        vt == variationTokens(f.tokens, f.i, j)
        bp == T[f.currentParent].parent
    IN  IF bp # NoNode
        THEN Append(st, newFrame(vt, bp, chessFromFen(T[bp].fen), FALSE))
        ELSE SetTop(st, [f EXCEPT !.i = j])

\* stepVariation with the variation built under the attachment point itself
stepVariationAsContinuation(T, st) ==
    LET f  == Top(st)
        j  == scanClose(f.tokens, f.i + 1, 1)
        vt == variationTokens(f.tokens, f.i, j)
        bp == f.currentParent
        f2 == [f EXCEPT !.i = j]
    IN  Append(SetTop(st, f2), newFrame(vt, bp, chessFromFen(T[bp].fen), FALSE))

\* stepVariation building the variation under an attachment point that has
\* no parent
stepVariationUnderRoot(T, st) ==
    LET f  == Top(st)
        j  == scanClose(f.tokens, f.i + 1, 1)
        vt == variationTokens(f.tokens, f.i, j)
        bp == IF T[f.currentParent].parent # NoNode THEN T[f.currentParent].parent
              ELSE f.currentParent
        f2 == [f EXCEPT !.i = j]
    IN  Append(SetTop(st, f2), newFrame(vt, bp, chessFromFen(T[bp].fen), FALSE))

\* stepVariation leaving the caller's attachment point at the branch point
stepVariationMovesAttachment(T, st) ==
    LET f  == Top(st)
        j  == scanClose(f.tokens, f.i + 1, 1)
        vt == variationTokens(f.tokens, f.i, j)
        bp == T[f.currentParent].parent
        f2 == [f EXCEPT !.i = j]
    IN  IF bp # NoNode
        THEN Append(SetTop(st, [f2 EXCEPT !.currentParent = bp]),
                    newFrame(vt, bp, chessFromFen(T[bp].fen), FALSE))
        ELSE SetTop(st, f2)

\* stepVariation handing its own isMainLine flag to the recursive call
stepVariationKeepFlag(T, st) ==
    LET f  == Top(st)
        j  == scanClose(f.tokens, f.i + 1, 1)
        vt == variationTokens(f.tokens, f.i, j)
        bp == T[f.currentParent].parent
        f2 == [f EXCEPT !.i = j]
    IN  IF bp # NoNode
        THEN Append(SetTop(st, f2),
                    newFrame(vt, bp, chessFromFen(T[bp].fen), f.isMainLine))
        ELSE SetTop(st, f2)

\* token "(": the caller continues at j once the recursive call has returned;
\* nothing reads its i in between, so it is set when the call is made
stepVariation(T, st) ==
    LET f  == Top(st)
        j  == scanClose(f.tokens, f.i + 1, 1)
        vt == variationTokens(f.tokens, f.i, j)
        bp == T[f.currentParent].parent
        f2 == [f EXCEPT !.i = j]
    IN  IF bp # NoNode
        THEN Append(SetTop(st, f2), newFrame(vt, bp, chessFromFen(T[bp].fen), FALSE))
        ELSE SetTop(st, f2)

\* stepMoveNodes putting the new node before the children there are
stepMoveNodesPrepending(T, st, id) ==
    LET f    == Top(st)
        move == sanMove(f.game, curToken(st))
        game == applyMove(f.game, move)
        node == [id |-> id, move |-> move, san |-> move.san, fen |-> gameFen(game),
                 children |-> <<>>, parent |-> f.currentParent,
                 isMainLine |-> f.isMainLine]
        h    == Len(T) + 1
    IN  Append([T EXCEPT ![f.currentParent].children = <<h>> \o @], node)

\* stepMoveNodes with parentNode of the invocation as the parent of the node
stepMoveNodesParentOfInvocation(T, st, id) ==
    LET f    == Top(st)
        move == sanMove(f.game, curToken(st))
        game == applyMove(f.game, move)
        node == [id |-> id, move |-> move, san |-> move.san, fen |-> gameFen(game),
                 children |-> <<>>, parent |-> f.parentNode,
                 isMainLine |-> f.isMainLine]
        h    == Len(T) + 1
    IN  Append([T EXCEPT ![f.currentParent].children = Append(@, h)], node)

\* stepMoveNodes taking the node's fen before the move is made
stepMoveNodesFenBefore(T, st, id) ==
    LET f    == Top(st)
        move == sanMove(f.game, curToken(st))
        node == [id |-> id, move |-> move, san |-> move.san, fen |-> gameFen(f.game),
                 children |-> <<>>, parent |-> f.currentParent,
                 isMainLine |-> f.isMainLine]
        h    == Len(T) + 1
    IN  Append([T EXCEPT ![f.currentParent].children = Append(@, h)], node)

\* a move token the evaluator accepts: the new node and the tree with it
stepMoveNodes(T, st, id) ==
    LET f    == Top(st)
        move == sanMove(f.game, curToken(st))
        game == applyMove(f.game, move)
        node == [id |-> id, move |-> move, san |-> move.san, fen |-> gameFen(game),
                 children |-> <<>>, parent |-> f.currentParent,
                 isMainLine |-> f.isMainLine]
        h    == Len(T) + 1
    IN  Append([T EXCEPT ![f.currentParent].children = Append(@, h)], node)

\* stepMoveStack without the advance of the attachment point
stepMoveStackKeepParent(T, st) ==
    LET f    == Top(st)
        move == sanMove(f.game, curToken(st))
    IN  SetTop(st, [f EXCEPT !.game = applyMove(f.game, move), !.i = f.i + 1])

stepMoveStack(T, st) ==
    LET f    == Top(st)
        move == sanMove(f.game, curToken(st))
    IN  SetTop(st, [f EXCEPT !.game = applyMove(f.game, move),
                             !.currentParent = Len(T) + 1,
                             !.i = f.i + 1])

\* stepSkip giving up the remaining tokens of the invocation
stepSkipRest(st) == SetTop(st, [Top(st) EXCEPT !.i = Len(Top(st).tokens)])

\* an empty token, or a move token the evaluator rejects: i++
stepSkip(st) == SetTop(st, [Top(st) EXCEPT !.i = @ + 1])

isMoveToken(token) == token # LeftParen /\ token # RightParen

accepts(game, token) == token # <<>> /\ sanMove(game, token) # NullMove

(***************************************************************************)
(* Tree queries.  T is the sequence of node objects, nodes are handles.    *)
(***************************************************************************)
RECURSIVE getLeafNodes(_, _), flatMapLeafNodes(_, _, _)
\* node.children.flatMap(getLeafNodes), from child k on
flatMapLeafNodes(T, children, k) ==
    IF k > Len(children) THEN <<>>
    ELSE getLeafNodes(T, children[k]) \o flatMapLeafNodes(T, children, k + 1)

\* getLeafNodes that also lists the node itself when it has children
getLeafNodesWithInner(T, node) ==
    <<node>> \o flatMapLeafNodes(T, T[node].children, 1)

getLeafNodes(T, node) ==
    IF Len(T[node].children) = 0 THEN <<node>>
    ELSE flatMapLeafNodes(T, T[node].children, 1)

\* lineTo that does not stop at the root
RECURSIVE lineToWithRoot(_, _, _)
lineToWithRoot(T, current, line) ==
    IF current # NoNode
    THEN lineToWithRoot(T, T[current].parent, <<current>> \o line)
    ELSE line

\* the while loop of getAllLines: unshift while current has a move
RECURSIVE lineTo(_, _, _)
lineTo(T, current, line) ==
    IF current # NoNode /\ T[current].move # NullMove
    THEN lineTo(T, T[current].parent, <<current>> \o line)
    ELSE line

getAllLines(T, root) ==
    LET leaves == getLeafNodes(T, root)
    IN  [k \in 1..Len(leaves) |-> lineTo(T, leaves[k], <<>>)]

RECURSIVE findNodeById(_, _, _), findInChildren(_, _, _, _)
\* the for loop returning the result of its first child, found or not
findInFirstChild(T, children, id, k) ==
    IF k > Len(children) THEN NoNode
    ELSE findNodeById(T, children[k], id)

\* the for loop of findNodeById, from child k on
findInChildren(T, children, id, k) ==
    IF k > Len(children) THEN NoNode
    ELSE LET found == findNodeById(T, children[k], id)
         IN  IF found # NoNode THEN found
             ELSE findInChildren(T, children, id, k + 1)

findNodeById(T, root, id) ==
    IF T[root].id = id THEN root
    ELSE findInChildren(T, T[root].children, id, 1)

\* pathTo that stops below the root
RECURSIVE pathToBelowRoot(_, _, _)
pathToBelowRoot(T, current, path) ==
    IF current # NoNode /\ T[current].parent # NoNode
    THEN pathToBelowRoot(T, T[current].parent, <<current>> \o path)
    ELSE path

\* the while loop of getPathToNode: unshift while current is not null
RECURSIVE pathTo(_, _, _)
pathTo(T, current, path) ==
    IF current # NoNode
    THEN pathTo(T, T[current].parent, <<current>> \o path)
    ELSE path

getPathToNode(T, node) == pathTo(T, node, <<>>)

\* the null result of findNextUnplayedLine (no line holds the null handle)
NoLine == <<NoNode>>

\* `leafId && !completedLines.has(leafId)`: leafId is undefined for an empty
\* line, and the empty string is falsy like undefined
isUnplayed(T, line, completedLines) ==
    /\ Len(line) > 0
    /\ T[line[Len(line)]].id # ""
    /\ T[line[Len(line)]].id \notin completedLines

\* the for loop of findNextUnplayedLine, from line k on
RECURSIVE firstUnplayed(_, _, _, _)
firstUnplayed(T, allLines, completedLines, k) ==
    IF k > Len(allLines) THEN NoLine
    ELSE IF isUnplayed(T, allLines[k], completedLines) THEN allLines[k]
    ELSE firstUnplayed(T, allLines, completedLines, k + 1)

findNextUnplayedLine(T, root, completedLines) ==
    firstUnplayed(T, getAllLines(T, root), completedLines, 1)

\* navigateToNode's replay: a new game, then game.move(n.move) for every
\* node of the path that has a move
RECURSIVE replay(_, _, _, _)
replay(T, path, k, game) ==
    IF k > Len(path) THEN game
    ELSE IF T[path[k]].move # NullMove
         THEN replay(T, path, k + 1,
                     LET m == objMove(game, T[path[k]].move)
                     IN  IF m # NullMove THEN applyMove(game, m) ELSE game)
         ELSE replay(T, path, k + 1, game)

replayPath(T, node) == replay(T, getPathToNode(T, node), 1, newChess)

(***************************************************************************)
(* The PGN texts the parser is run on: every sequence of at most MaxTokens *)
(* tokens, written with one space between tokens, and the texts below.     *)
(***************************************************************************)
E4 == <<"e", "4">>

D4 == <<"d", "4">>

E5 == <<"e", "5">>

D5 == <<"d", "5">>

NF3 == <<"N", "f", "3">>

ZZ9 == <<"Z", "z", "9">>

TokenAlphabet == {LeftParen, RightParen, E4, D4, E5, D5, ZZ9}

RECURSIVE joinTokens(_)
joinTokens(ts) ==
    IF ts = <<>> THEN <<>>
    ELSE IF Len(ts) = 1 THEN ts[1]
    ELSE ts[1] \o <<" ">> \o joinTokens(Tail(ts))

TokenSeqs == UNION { [1..n -> TokenAlphabet] : n \in 0..MaxTokens }

\* 1. e4 (1. d4 d5) e5
TextVariation ==
    <<"1", ".", " ", "e", "4", " ", "(", "1", ".", " ", "d", "4", " ", "d", "5", ")", " ", "e", "5">>

\* 1. e4 (1. d4
TextUnbalanced ==
    <<"1", ".", " ", "e", "4", " ", "(", "1", ".", " ", "d", "4">>

\* 1. e4 e5 2. Zz9 Nf3
TextMalformed ==
    <<"1", ".", " ", "e", "4", " ", "e", "5", " ", "2", ".", " ", "Z", "z", "9", " ", "N", "f", "3">>

\* 1.e4 e5 (1...d5 2.d4 (2.Nf3 e5) e5) 2.Nf3
TextNested ==
    <<"1", ".", "e", "4", " ", "e", "5", " ", "(", "1", ".", ".", ".", "d", "5", " ", "2", ".", "d", "4", " ", "(", "2", ".", "N", "f", "3", " ", "e", "5", ")", " ", "e", "5", ")", " ", "2", ".", "N", "f", "3">>

\* 1. e4! {best\nby test} e5 $1 2. Nf3 1-0
TextAnnotated ==
    <<"1", ".", " ", "e", "4", "!", " ", "{", "b", "e", "s", "t", "\n", "b", "y", " ", "t", "e", "s", "t", "}", " ", "e", "5", " ", "$", "1", " ", "2", ".", " ", "N", "f", "3", " ", "1", "-", "0">>

\* 1. e4 (1. d4) (1. Nf3 d5) 1... e5
TextSiblings ==
    <<"1", ".", " ", "e", "4", " ", "(", "1", ".", " ", "d", "4", ")", " ", "(", "1", ".", " ", "N", "f", "3", " ", "d", "5", ")", " ", "1", ".", ".", ".", " ", "e", "5">>

ExampleTexts ==
    {TextVariation, TextUnbalanced, TextMalformed, TextNested, TextAnnotated,
     TextSiblings}

\* m (v1) (v2 r) c: two variations written after the first move m, all moves
\* legal
SiblingCases ==
    { [m |-> m, v1 |-> v1, v2 |-> v2, r |-> r, c |-> c] :
        m \in {E4, NF3}, v1 \in {D4}, v2 \in {E4, D4, NF3},
        r \in {D5}, c \in {E5, D5} }

SiblingText(x) ==
    joinTokens(<<x.m, LeftParen, x.v1, RightParen, LeftParen, x.v2, x.r, RightParen, x.c>>)

SiblingTexts == { SiblingText(x) : x \in SiblingCases }

PgnTexts == { joinTokens(ts) : ts \in TokenSeqs } \cup ExampleTexts \cup SiblingTexts

(***************************************************************************)
(* The session of App.vue.  `app` holds its refs; moveTree is `nodes`      *)
(* (<<>> is null).  The tree is replaced on every load while               *)
(* currentTargetLine and currentNode may still hold nodes of the tree they *)
(* were taken from, so each of the two is kept with its tree: lineTree for *)
(* currentTargetLine, nodeTree for currentNode.  `timers` holds the        *)
(* pending setTimeout callbacks in the order they were set, each with the  *)
(* time left until it is due, in units of 100 ms.  `notice` and `feedback`  *)
(* are what the last handler showed: whether it ended with the alert, and  *)
(* the feedback it set (on the screen the feedback stays until the next    *)
(* showFeedback, resetBoard or its 800 ms expiry; nothing but the board's  *)
(* colouring reads it).                                                    *)
(***************************************************************************)
NoStudy == [pgn |-> <<>>, defaultColor |-> "none"]

\* localStorage under STORAGE_KEY holds no entry, an entry that cannot be
\* read, a text, or the text saveStudies wrote for a list of studies
NoItem == [kind |-> "none"]

\* the studies of App.vue before onMounted, the stored entry, and the clock
\* Date.now() reads
StoreInit == [mounted |-> FALSE, usable |-> TRUE, studies |-> <<>>,
              item |-> NoItem, now |-> 1]

AppInit ==
    [study |-> NoStudy, mode |-> "edit", playerColor |-> "white",
     currentNode |-> NoNode, nodeTree |-> <<>>,
     completedLines |-> {},
     currentTargetLine |-> <<>>, lineTree |-> <<>>, currentTargetIndex |-> 0,
     game |-> newChess,
     feedback |-> "none",
     notice |-> FALSE,
     timers |-> <<>>]

(***************************************************************************)
(* Specification: parsePgnToTree on a text, then any queries on its tree.  *)
(***************************************************************************)
NoCall == [fn |-> "none"]

TokIdle == [str |-> <<>>, i |-> 0, st |-> tokInit, done |-> TRUE]

Init ==
    /\ pgn \in PgnTexts
    /\ pc = "start"
    /\ nodes = <<>>
    /\ stack = <<>>
    /\ ret = NoCall
    /\ tk = TokIdle
    /\ app = AppInit
    /\ sync = AppInit
    /\ store = StoreInit

\* parsePgnToTree attaching to the root object of the previous call instead
\* of a new one
ParsePgnOnOldRoot ==
    /\ pc = "start"
    /\ nodes' = IF ret = NoCall THEN <<rootRecord>> ELSE ret.val
    /\ IF cleanPgn(pgn) = <<>>
       THEN pc' = "parsed" /\ stack' = <<>>
       ELSE /\ pc' = "build"
            /\ stack' = <<newFrame(tokenize(cleanPgn(pgn)), RootNode, newChess, TRUE)>>
    /\ UNCHANGED <<pgn, ret, tk, app, sync, store>>

\* parsePgnToTree up to its call of buildTree
ParsePgn ==
    /\ pc = "start"
    /\ nodes' = <<rootRecord>>
    /\ IF cleanPgn(pgn) = <<>>
       THEN pc' = "parsed" /\ stack' = <<>>
       ELSE /\ pc' = "build"
            /\ stack' = <<newFrame(tokenize(cleanPgn(pgn)), RootNode, newChess, TRUE)>>
    /\ UNCHANGED <<pgn, ret, tk, app, sync, store>>

\* the state after the innermost invocation returned
Returned ==
    /\ stack' = Pop(stack)
    /\ pc' = IF Len(stack) = 1 THEN "parsed" ELSE "build"

BuildVariation ==
    /\ pc = "build"
    /\ inLoop(stack)
    /\ curToken(stack) = LeftParen
    /\ stack' = stepVariation(nodes, stack)
    /\ UNCHANGED <<pgn, pc, nodes, ret, tk, app, sync, store>>

BuildCloseParen ==
    /\ pc = "build"
    /\ inLoop(stack)
    /\ curToken(stack) = RightParen
    /\ Returned
    /\ UNCHANGED <<pgn, nodes, ret, tk, app, sync, store>>

BuildMove ==
    /\ pc = "build"
    /\ inLoop(stack)
    /\ isMoveToken(curToken(stack))
    /\ accepts(Top(stack).game, curToken(stack))
    /\ \E id \in generateId(nodes) : nodes' = stepMoveNodes(nodes, stack, id)
    /\ stack' = stepMoveStack(nodes, stack)
    /\ UNCHANGED <<pgn, pc, ret, tk, app, sync, store>>

BuildSkip ==
    /\ pc = "build"
    /\ inLoop(stack)
    /\ isMoveToken(curToken(stack))
    /\ ~accepts(Top(stack).game, curToken(stack))
    /\ stack' = stepSkip(stack)
    /\ UNCHANGED <<pgn, pc, nodes, ret, tk, app, sync, store>>

BuildReturn ==
    /\ pc = "build"
    /\ stack # <<>>
    /\ ~inLoop(stack)
    /\ Returned
    /\ UNCHANGED <<pgn, nodes, ret, tk, app, sync, store>>

\* the ids a caller may ask for or hold: those of the tree and a foreign one
KnownIds == { nodes[h].id : h \in Handles(nodes) } \cup {"zz"}

LeafIds == { nodes[h].id : h \in { x \in Handles(nodes) : nodes[x].children = <<>> } }

\* getLeafNodes enumerating the children back to front by reversing
\* node.children in place
CallGetLeafNodesReversing ==
    /\ pc = "parsed"
    /\ \E n \in Handles(nodes) :
         /\ ret' = [fn |-> "getLeafNodes", arg |-> n, val |-> getLeafNodes(nodes, n)]
         /\ nodes' = [nodes EXCEPT ![n].children =
                         [k \in 1..Len(@) |-> @[Len(@) + 1 - k]]]
    /\ pc' = "called"
    /\ UNCHANGED <<pgn, stack, tk, app, sync, store>>

CallGetLeafNodes ==
    /\ pc = "parsed"
    /\ \E n \in Handles(nodes) :
         ret' = [fn |-> "getLeafNodes", arg |-> n, val |-> getLeafNodes(nodes, n)]
    /\ pc' = "called"
    /\ UNCHANGED <<pgn, nodes, stack, tk, app, sync, store>>

CallGetAllLines ==
    /\ pc = "parsed"
    /\ ret' = [fn |-> "getAllLines", arg |-> RootNode,
               val |-> getAllLines(nodes, RootNode)]
    /\ pc' = "called"
    /\ UNCHANGED <<pgn, nodes, stack, tk, app, sync, store>>

CallFindNodeById ==
    /\ pc = "parsed"
    /\ \E n \in Handles(nodes), id \in KnownIds :
         ret' = [fn |-> "findNodeById", arg |-> <<n, id>>,
                 val |-> findNodeById(nodes, n, id)]
    /\ pc' = "called"
    /\ UNCHANGED <<pgn, nodes, stack, tk, app, sync, store>>

CallGetPathToNode ==
    /\ pc = "parsed"
    /\ \E n \in Handles(nodes) :
         ret' = [fn |-> "getPathToNode", arg |-> n, val |-> getPathToNode(nodes, n)]
    /\ pc' = "called"
    /\ UNCHANGED <<pgn, nodes, stack, tk, app, sync, store>>

CallFindNextUnplayedLine ==
    /\ pc = "parsed"
    /\ \E completed \in SUBSET LeafIds :
         ret' = [fn |-> "findNextUnplayedLine", arg |-> completed,
                 val |-> findNextUnplayedLine(nodes, RootNode, completed)]
    /\ pc' = "called"
    /\ UNCHANGED <<pgn, nodes, stack, tk, app, sync, store>>

\* the caller has taken the result
CallReturn ==
    /\ pc = "called"
    /\ pc' = "parsed"
    /\ ret' = NoCall
    /\ UNCHANGED <<pgn, nodes, stack, tk, app, sync, store>>

Next ==
    \/ ParsePgn
    \/ BuildVariation
    \/ BuildCloseParen
    \/ BuildMove
    \/ BuildSkip
    \/ BuildReturn
    \/ CallGetLeafNodes
    \/ CallGetAllLines
    \/ CallFindNodeById
    \/ CallGetPathToNode
    \/ CallFindNextUnplayedLine
    \/ CallReturn

Spec == Init /\ [][Next]_vars

(***************************************************************************)
(* Specification of tokenize alone, one character per step, on every       *)
(* string of at most MaxChars characters.                                  *)
(***************************************************************************)
TokChars == {"(", ")", " ", "e", "4"}

TokStrings == UNION { [1..n -> TokChars] : n \in 0..MaxChars }

TokInit ==
    /\ pgn = <<>>
    /\ pc = "tokenize"
    /\ nodes = <<>>
    /\ stack = <<>>
    /\ ret = NoCall
    /\ \E str \in TokStrings : tk = [str |-> str, i |-> 0, st |-> tokInit, done |-> FALSE]
    /\ app = AppInit
    /\ sync = AppInit
    /\ store = StoreInit

\* one iteration of the for loop
TokenizeChar ==
    /\ pc = "tokenize"
    /\ ~tk.done
    /\ tk.i < Len(tk.str)
    /\ tk' = [tk EXCEPT !.st = tokStep(tk.st, tk.str[tk.i + 1]), !.i = tk.i + 1]
    /\ UNCHANGED <<pgn, pc, nodes, stack, ret, app, sync, store>>

\* the flush after the loop, and the return
TokenizeReturn ==
    /\ pc = "tokenize"
    /\ ~tk.done
    /\ tk.i >= Len(tk.str)
    /\ tk' = [tk EXCEPT !.done = TRUE]
    /\ ret' = [fn |-> "tokenize", arg |-> tk.str, val |-> tokFinish(tk.st)]
    /\ UNCHANGED <<pgn, pc, nodes, stack, app, sync, store>>

TokNext == TokenizeChar \/ TokenizeReturn

TokSpec == TokInit /\ [][TokNext]_vars

(***************************************************************************)
(* Vocabulary of the properties below, independent of the queries: the     *)
(* tree is read through parent links and by levels.                        *)
(***************************************************************************)
Last(s) == s[Len(s)]

Built == pc \in {"parsed", "called"}

IsLeaf(T, h) == T[h].children = <<>>

\* n and the nodes above it
RECURSIVE AncestorsOrSelf(_, _)
AncestorsOrSelf(T, n) ==
    IF n = NoNode THEN {} ELSE {n} \cup AncestorsOrSelf(T, T[n].parent)

\* the subtree rooted at n
Subtree(T, n) == { h \in Handles(T) : n \in AncestorsOrSelf(T, h) }

\* the set of children of the nodes of S
ChildrenOf(T, S) == UNION { { T[h].children[k] : k \in 1..Len(T[h].children) } : h \in S }

\* the number of child links from the root down to n (-1: not reachable)
RECURSIVE DepthFrom(_, _, _, _)
DepthFrom(T, level, n, d) ==
    IF n \in level THEN d
    ELSE IF level = {} \/ d > Len(T) THEN 0 - 1
    ELSE DepthFrom(T, ChildrenOf(T, level), n, d + 1)

Depth(T, n) == DepthFrom(T, {RootNode}, n, 0)

\* the position of x in sequence s (0: absent)
IndexIn(s, x) ==
    IF \E k \in 1..Len(s) : s[k] = x
    THEN CHOOSE k \in 1..Len(s) : s[k] = x /\ \A j \in 1..(k - 1) : s[j] # x
    ELSE 0

\* the notations of a sequence of nodes
Sans(T, hs) == [k \in 1..Len(hs) |-> T[hs[k]].san]

ChildSans(T, h) == Sans(T, T[h].children)

\* the node reached from the root by the moves of sans, taking at each node
\* the first child with that notation (NoNode: no such path)
RECURSIVE Walk(_, _, _)
Walk(T, h, sans) ==
    IF sans = <<>> THEN h
    ELSE IF IndexIn(ChildSans(T, h), Head(sans)) = 0 THEN NoNode
    ELSE Walk(T, T[h].children[IndexIn(ChildSans(T, h), Head(sans))], Tail(sans))

(***************************************************************************)
(* C1 (findNextUnplayedLine).  The claim: the result is the first line of  *)
(* getAllLines whose last node's id is not in the completed set, and it is *)
(* null exactly when every leaf id of the tree is in the completed set or  *)
(* the tree has no moves.                                                  *)
(***************************************************************************)
\* the lines of the tree whose last node's id is not completed
OpenLines(T, completed) ==
    { k \in 1..Len(getAllLines(T, RootNode)) :
        /\ getAllLines(T, RootNode)[k] # <<>>
        /\ T[Last(getAllLines(T, RootNode)[k])].id \notin completed }

\* C1: findNextUnplayedLine returns the first line, in getAllLines order,
\* whose last node's id is not in completed, and null exactly when every leaf
\* id is in completed or the tree is the root alone
C1_FirstOpenLine ==
    ret.fn = "findNextUnplayedLine" =>
        LET open == OpenLines(nodes, ret.arg)
        IN  /\ open # {} =>
                 ret.val = getAllLines(nodes, RootNode)[
                               CHOOSE k \in open : \A j \in open : k <= j]
            /\ ret.val = NoLine <=>
                 \/ Len(nodes) = 1
                 \/ \A h \in Handles(nodes) :
                        IsLeaf(nodes, h) => nodes[h].id \in ret.arg

(***************************************************************************)
(* C3 (unmatched parenthesis).  The claim: "1. e4 (1. d4" yields a root    *)
(* whose children are e4 and d4.                                           *)
(***************************************************************************)
\* C3: every token after an unmatched "(" is the variation body, so
\* "1. e4 (1. d4" gives the root the children e4 (main) and d4 (variation)
C3_UnbalancedKeepsBody ==
    (Built /\ pgn = TextUnbalanced) => ChildSans(nodes, RootNode) = <<E4, D4>>

(***************************************************************************)
(* C2 (variation branching).                                               *)
(***************************************************************************)
\* the handle a node created by this step gets
NewNode == Len(nodes) + 1

\* the positions one legal move away from position fen
Successors(fen) == { makeMove(fen, m) : m \in legalMoves(fen) }

\* a step of the builder that creates a node
Attaches == pc = "build" /\ Len(nodes') = Len(nodes) + 1

\* in every state: the invocation of a variation attaches under the parent
\* of the caller's attachment point m, and is not on the main line
C2_BranchPoint ==
    \A k \in 2..Len(stack) :
        /\ nodes[stack[k - 1].currentParent].parent # NoNode
        /\ stack[k].parentNode = nodes[stack[k - 1].currentParent].parent
        /\ ~stack[k].isMainLine

\* in every step: a variation never changes the invocations around it, and
\* opening one leaves the attachment point and position of its caller alone
C2_OuterUnchanged ==
    /\ \A k \in 1..(Len(stack) - 1) : k <= Len(stack') => stack'[k] = stack[k]
    /\ (stack # <<>> /\ Len(stack') > Len(stack)) =>
         /\ stack'[Len(stack)].currentParent = Top(stack).currentParent
         /\ stack'[Len(stack)].game = Top(stack).game
         /\ Top(stack').currentParent = nodes[Top(stack).currentParent].parent
         /\ gameFen(Top(stack').game) = nodes[Top(stack').parentNode].fen

\* in every step that creates a node: it becomes the last child of the
\* attachment point, reached by one legal move from that node's position; the
\* first node of a variation is a later sibling of the caller's m
C2_Attach ==
    Attaches =>
        LET cp == Top(stack).currentParent
        IN  /\ nodes'[NewNode].parent = cp
            /\ nodes'[cp].children = Append(nodes[cp].children, NewNode)
            /\ nodes'[NewNode].fen \in Successors(nodes[cp].fen)
            /\ (Len(stack) >= 2 /\ cp = Top(stack).parentNode) =>
                 LET m == stack[Len(stack) - 1].currentParent
                 IN  /\ IndexIn(nodes[cp].children, m) >= 1
                     /\ IndexIn(nodes'[cp].children, NewNode) >
                            IndexIn(nodes[cp].children, m)

\* "1. e4 (1. d4 d5) e5"
C2_Example ==
    (Built /\ pgn = TextVariation) =>
        /\ Len(nodes) = 5
        /\ ChildSans(nodes, RootNode) = <<E4, D4>>
        /\ ChildSans(nodes, Walk(nodes, RootNode, <<E4>>)) = <<E5>>
        /\ ChildSans(nodes, Walk(nodes, RootNode, <<D4>>)) = <<D5>>
        /\ getLeafNodes(nodes, RootNode) =
               << Walk(nodes, RootNode, <<E4, E5>>), Walk(nodes, RootNode, <<D4, D5>>) >>

\* C2: at every nesting depth a variation written after an attached move m is
\* built under m's parent, from the position of m's parent, its first node
\* a later sibling of m; the moves after the variation attach under m; and
\* "1. e4 (1. d4 d5) e5" gives root [e4, d4], e4 [e5], d4 [d5], leaves [e5, d5]
C2_VariationBranching ==
    /\ [](C2_BranchPoint /\ C2_Example)
    /\ [][C2_OuterUnchanged /\ C2_Attach]_vars

\* a node was attached in a variation inside a variation, as a later sibling
C2_Witness ==
    /\ Len(stack) >= 3
    /\ Top(stack).currentParent # Top(stack).parentNode
    /\ Len(nodes[Top(stack).parentNode].children) >= 2

(***************************************************************************)
(* C4 (rejected move tokens).                                              *)
(***************************************************************************)
\* the innermost invocation is at a move token that no legal move of the
\* attachment point's position is written as
AtRejectedToken ==
    /\ pc = "build"
    /\ inLoop(stack)
    /\ isMoveToken(curToken(stack))
    /\ \A m \in legalMoves(nodes[Top(stack).currentParent].fen) :
           m.san # strippedSan(curToken(stack))

C4_Skip ==
    AtRejectedToken =>
        /\ nodes' = nodes
        /\ Len(stack') = Len(stack)
        /\ Top(stack') = [Top(stack) EXCEPT !.i = Top(stack).i + 1]

\* "1. e4 e5 2. Zz9 Nf3"
C4_Example ==
    (Built /\ pgn = TextMalformed) =>
        /\ Len(nodes) = 4
        /\ \A h \in Handles(nodes) : Len(nodes[h].children) <= 1
        /\ Walk(nodes, RootNode, <<E4, E5, NF3>>) # NoNode

\* C4: a move token the evaluator rejects adds no node, leaves the attachment
\* point and the position alone and only moves on to the next token;
\* "1. e4 e5 2. Zz9 Nf3" yields exactly the chain root -> e4 -> e5 -> Nf3
C4_RejectedTokenSkipped == []C4_Example /\ [][C4_Skip]_vars

\* a token was rejected after two moves were attached, more tokens follow
C4_Witness ==
    /\ AtRejectedToken
    /\ Len(nodes) = 3
    /\ Top(stack).i + 1 < Len(Top(stack).tokens)

(***************************************************************************)
(* C5 (main line only).                                                    *)
(***************************************************************************)
\* are the move texts ms, from position k on, legal in sequence from pos
RECURSIVE LegalFrom(_, _, _)
LegalFrom(pos, ms, k) ==
    IF k > Len(ms) THEN TRUE
    ELSE /\ \E m \in legalMoves(pos) : m.san = ms[k]
         /\ LegalFrom(makeMove(pos, CHOOSE m \in legalMoves(pos) : m.san = ms[k]),
                      ms, k + 1)

\* the texts with main-line moves only, all legal, and their plies
MainLineCases ==
    { [text |-> joinTokens(ts), plies |-> ts] :
        ts \in { x \in TokenSeqs :
                   /\ \A k \in 1..Len(x) : isMoveToken(x[k])
                   /\ LegalFrom(StartPosition, x, 1) } }
    \cup { [text |-> TextAnnotated, plies |-> <<E4, E5, NF3>>] }

\* C5: a text of main-line moves only, all legal, yields one unbranching
\* chain with one node per ply, and getAllLines returns that chain alone
C5_MainLineChain ==
    Built =>
        \A c \in MainLineCases :
            pgn = c.text =>
                /\ Len(nodes) = Len(c.plies) + 1
                /\ \A h \in Handles(nodes) : Len(nodes[h].children) <= 1
                /\ \A k \in 1..Len(c.plies) :
                       /\ nodes[k + 1].san = c.plies[k]
                       /\ nodes[k + 1].parent = k
                       /\ nodes[k].children = <<k + 1>>
                /\ getAllLines(nodes, RootNode) =
                       << [k \in 1..Len(c.plies) |-> k + 1] >>

\* a cleaned, annotated text of three plies was parsed
C5_Witness == Built /\ pgn = TextAnnotated /\ Len(nodes) = 4

(***************************************************************************)
(* C6 (getLeafNodes).                                                      *)
(***************************************************************************)
\* a comes before b in depth-first pre-order over children in index order:
\* some node has a in the subtree of an earlier child and b in that of a
\* later child
LeafBefore(T, a, b) ==
    \E x \in Handles(T) :
        \E i, j \in 1..Len(T[x].children) :
            /\ i < j
            /\ a \in Subtree(T, T[x].children[i])
            /\ b \in Subtree(T, T[x].children[j])

\* C6: getLeafNodes(n) holds exactly the childless nodes of the subtree of n,
\* each once, in depth-first pre-order over children in index order, and is
\* [n] for a node without children
C6_LeavesInPreOrder ==
    ret.fn = "getLeafNodes" =>
        /\ { ret.val[k] : k \in 1..Len(ret.val) } =
               { h \in Subtree(nodes, ret.arg) : IsLeaf(nodes, h) }
        /\ \A p, q \in 1..Len(ret.val) :
               p < q => /\ ret.val[p] # ret.val[q]
                        /\ LeafBefore(nodes, ret.val[p], ret.val[q])
        /\ IsLeaf(nodes, ret.arg) => ret.val = <<ret.arg>>

\* the leaves of a tree with three lines were enumerated
C6_Witness == ret.fn = "getLeafNodes" /\ Len(ret.val) >= 3

(***************************************************************************)
(* C7 (getAllLines).                                                       *)
(***************************************************************************)
\* C7: getAllLines(root) has one line per leaf in the order of getLeafNodes;
\* line i ends with leaf i, begins with a child of the root, never holds the
\* root, and each element is a child of the one before; a root-only tree
\* has the single empty line
C7_LinesPerLeaf ==
    ret.fn = "getAllLines" =>
        LET leaves == getLeafNodes(nodes, RootNode)
        IN  /\ Len(ret.val) = Len(leaves)
            /\ Len(nodes) = 1 => ret.val = << <<>> >>
            /\ Len(nodes) > 1 =>
                 \A i \in 1..Len(leaves) :
                     LET line == ret.val[i]
                     IN  /\ line # <<>>
                         /\ Last(line) = leaves[i]
                         /\ IndexIn(nodes[RootNode].children, line[1]) >= 1
                         /\ \A k \in 1..Len(line) : line[k] # RootNode
                         /\ \A k \in 1..(Len(line) - 1) :
                                IndexIn(nodes[line[k]].children, line[k + 1]) >= 1

\* the lines of a branching tree with a line of three moves were enumerated
C7_Witness ==
    /\ ret.fn = "getAllLines"
    /\ Len(ret.val) >= 2
    /\ \E i \in 1..Len(ret.val) : Len(ret.val[i]) >= 3

(***************************************************************************)
(* C8 (getPathToNode).                                                     *)
(***************************************************************************)
\* C8: getPathToNode(n) starts with the root, ends with n, has depth(n) + 1
\* elements, each the parent of the next, and replaying the moves of the path
\* from the starting position gives n's position
C8_PathToNode ==
    ret.fn = "getPathToNode" =>
        /\ ret.val # <<>>
        /\ ret.val[1] = RootNode
        /\ Last(ret.val) = ret.arg
        /\ Len(ret.val) = Depth(nodes, ret.arg) + 1
        /\ \A k \in 1..(Len(ret.val) - 1) :
               /\ nodes[ret.val[k + 1]].parent = ret.val[k]
               /\ IndexIn(nodes[ret.val[k]].children, ret.val[k + 1]) >= 1
        /\ gameFen(replayPath(nodes, ret.arg)) = nodes[ret.arg].fen
        /\ Len(replayPath(nodes, ret.arg).history) = Depth(nodes, ret.arg)

\* the path to a node three moves deep inside a variation was asked for
C8_Witness ==
    /\ ret.fn = "getPathToNode"
    /\ Len(ret.val) >= 4
    /\ ~nodes[ret.arg].isMainLine

(***************************************************************************)
(* C9 (findNodeById).                                                      *)
(***************************************************************************)
\* the subtree of n in depth-first pre-order
RECURSIVE PreOrder(_, _), PreOrderFrom(_, _, _)
PreOrderFrom(T, children, k) ==
    IF k > Len(children) THEN <<>>
    ELSE PreOrder(T, children[k]) \o PreOrderFrom(T, children, k + 1)

PreOrder(T, n) == <<n>> \o PreOrderFrom(T, T[n].children, 1)

UniqueIds(T) == \A a, b \in Handles(T) : T[a].id = T[b].id => a = b

\* C9: findNodeById(root, id) is the first node of the subtree in depth-first
\* pre-order whose id is id (the root itself when its id is id), null when
\* there is none; with unique ids, findNodeById(root, n.id) = n
C9_FirstInPreOrder ==
    ret.fn = "findNodeById" =>
        LET root == ret.arg[1]
            id   == ret.arg[2]
            pre  == PreOrder(nodes, root)
            hits == { k \in 1..Len(pre) : nodes[pre[k]].id = id }
        IN  /\ nodes[root].id = id => ret.val = root
            /\ hits = {} => ret.val = NoNode
            /\ hits # {} => ret.val = pre[CHOOSE k \in hits : \A j \in hits : k <= j]
            /\ (UniqueIds(nodes) /\ ret.val # NoNode) =>
                 /\ nodes[ret.val].id = id
                 /\ \A n \in Subtree(nodes, root) : nodes[n].id = id => ret.val = n

\* a node was found that is a later child of its parent, ids being unique
C9_Witness ==
    /\ ret.fn = "findNodeById"
    /\ ret.val # NoNode
    /\ ret.val # ret.arg[1]
    /\ UniqueIds(nodes)
    /\ IndexIn(nodes[nodes[ret.val].parent].children, ret.val) >= 2

(***************************************************************************)
(* C10 (tokenize), under TokSpec.                                          *)
(***************************************************************************)
RECURSIVE Concat(_)
Concat(ts) == IF ts = <<>> THEN <<>> ELSE Head(ts) \o Concat(Tail(ts))

NotSpace(c) == c # " "

\* C10: every token is "(", ")" or a non-empty string without space or
\* parenthesis; the tokens, concatenated in order, are the input without its
\* spaces; the empty string yields no token
C10_TokenShapes ==
    ret.fn = "tokenize" =>
        /\ \A k \in 1..Len(ret.val) :
               \/ ret.val[k] = LeftParen
               \/ ret.val[k] = RightParen
               \/ /\ ret.val[k] # <<>>
                  /\ \A j \in 1..Len(ret.val[k]) :
                         ret.val[k][j] \notin {" ", "(", ")"}
        /\ Concat(ret.val) = SelectSeq(ret.arg, NotSpace)
        /\ ret.arg = <<>> => ret.val = <<>>

\* "e4(e)" was tokenized: parentheses next to move text are tokens of their own
C10_Witness ==
    /\ ret.fn = "tokenize"
    /\ ret.arg = <<"e", "4", "(", "e", ")">>
    /\ ret.val = <<E4, LeftParen, <<"e">>, RightParen>>

(***************************************************************************)
(* C12 (ids within one tree).                                              *)
(***************************************************************************)
\* C12: in a tree built by parsePgnToTree no two nodes, the root included,
\* have the same id, whatever the text and whatever generateId returns
C12_UniqueIds == Built => UniqueIds(nodes)

(***************************************************************************)
(* C11 (parsing the same text twice).  Specification: parsePgnToTree on a  *)
(* text, and once it has returned, parsePgnToTree on the same text again   *)
(* (loadStudyTree parses the text of a study on every selection and every  *)
(* update); `ret` keeps the tree of the first call.                        *)
(***************************************************************************)
MaxReparseTokens == 3

ReparseTexts ==
    { joinTokens(ts) : ts \in { t \in TokenSeqs : Len(t) <= MaxReparseTokens } }
        \cup {TextVariation, TextSiblings, TextAnnotated}

ReparseInit ==
    /\ pgn \in ReparseTexts
    /\ pc = "start"
    /\ nodes = <<>>
    /\ stack = <<>>
    /\ ret = NoCall
    /\ tk = TokIdle
    /\ app = AppInit
    /\ sync = AppInit
    /\ store = StoreInit

\* the first call has returned its tree; the caller parses the text again
ParseAgain ==
    /\ pc = "parsed"
    /\ ret = NoCall
    /\ ret' = [fn |-> "parsePgnToTree", arg |-> pgn, val |-> nodes]
    /\ pc' = "start"
    /\ nodes' = <<>>
    /\ UNCHANGED <<pgn, stack, tk, app, sync, store>>

ReparseNext ==
    \/ ParsePgn
    \/ BuildVariation
    \/ BuildCloseParen
    \/ BuildMove
    \/ BuildSkip
    \/ BuildReturn
    \/ ParseAgain

ReparseSpec == ReparseInit /\ [][ReparseNext]_vars

\* node a of tree A and node b of tree B agree on san, fen and isMainLine and
\* have the same number of children, which agree in the same way in order
RECURSIVE Isomorphic(_, _, _, _)
Isomorphic(A, a, B, b) ==
    /\ A[a].san = B[b].san
    /\ A[a].fen = B[b].fen
    /\ A[a].isMainLine = B[b].isMainLine
    /\ Len(A[a].children) = Len(B[b].children)
    /\ \A k \in 1..Len(A[a].children) :
           k <= Len(B[b].children)
             => Isomorphic(A, A[a].children[k], B, B[b].children[k])

\* C11: the trees of two calls of parsePgnToTree on the same text are
\* isomorphic: same shape and child order, same san, fen and isMainLine at
\* corresponding nodes (ids aside)
C11_SameTextSameTree ==
    (pc = "parsed" /\ ret.fn = "parsePgnToTree")
        => Isomorphic(ret.val, RootNode, nodes, RootNode)

\* "1. e4 (1. d4 d5) e5" was parsed twice, and the two trees differ in an id
C11_Witness ==
    /\ pc = "parsed"
    /\ ret.fn = "parsePgnToTree"
    /\ pgn = TextVariation
    /\ Len(nodes) = 5
    /\ \E h \in Handles(nodes) : nodes[h].id # ret.val[h].id

(***************************************************************************)
(* The session of App.vue: handlers as operators on the refs.  a is the    *)
(* record of refs, T the tree moveTree holds.                              *)
(***************************************************************************)
\* most callbacks pending at once (user actions that would set one more are
\* not taken)
MaxTimers == 2
\* most moves on the board of the session (the board reports no further one)
MaxPlies == 3

\* the setTimeout delays in units of 100 ms
Delay ==
    [autoPlay |-> 3, opponent |-> 5, endOfLine |-> 5, lineDone |-> 8,
     variation |-> 10]

\* parsePgnToTree run to completion: the trees it may return, one for every
\* outcome of generateId
RECURSIVE buildTreeRuns(_, _)
buildTreeRuns(T, st) ==
    IF st = <<>> THEN {T}
    ELSE IF ~inLoop(st) THEN buildTreeRuns(T, Pop(st))
    ELSE IF curToken(st) = LeftParen THEN buildTreeRuns(T, stepVariation(T, st))
    ELSE IF curToken(st) = RightParen THEN buildTreeRuns(T, Pop(st))
    ELSE IF accepts(Top(st).game, curToken(st))
         THEN UNION { buildTreeRuns(stepMoveNodes(T, st, id), stepMoveStack(T, st)) :
                        id \in generateId(T) }
    ELSE buildTreeRuns(T, stepSkip(st))

parsePgnToTreeRuns(text) ==
    IF cleanPgn(text) = <<>> THEN {<<rootRecord>>}
    ELSE buildTreeRuns(<<rootRecord>>,
                       <<newFrame(tokenize(cleanPgn(text)), RootNode, newChess, TRUE)>>)

\* 1. e4 e5 (1... d5)
TextReplies ==
    <<"1", ".", " ", "e", "4", " ", "e", "5", " ", "(", "1", ".", ".", ".", " ", "d", "5", ")">>

\* the studies of the session: "1. e4 e5 (1... d5)" for black, and a text
\* without any legal move for white
SessionStudies ==
    { [pgn |-> TextReplies, defaultColor |-> "black"],
      [pgn |-> ZZ9, defaultColor |-> "white"] }

\* the trees parsePgnToTree may return for each study
StudyTrees == [s \in SessionStudies |-> parsePgnToTreeRuns(s.pgn)]

resetBoard(a) ==
    [a EXCEPT !.game = newChess, !.feedback = "none",
              !.currentNode = NoNode, !.nodeTree = <<>>]

\* loadStudyTree, but for the assignment of moveTree
loadStudyTree(a) == resetBoard([a EXCEPT !.completedLines = {}])

isPlayerTurn(a) ==
    (IF a.game.pos.turn = "w" THEN "white" ELSE "black") = a.playerColor

\* setTimeout(cb, delay)
setTimeout(a, cb, delay) ==
    [a EXCEPT !.timers = Append(@, [cb |-> cb, due |-> delay])]

\* selectNextLine that stays in drill mode after the alert
selectNextLineKeepMode(a, T) ==
    LET nextLine == findNextUnplayedLine(T, RootNode, a.completedLines)
    IN  IF nextLine = NoLine \/ nextLine = <<>>
        THEN [a EXCEPT !.notice = TRUE]
        ELSE [a EXCEPT !.currentTargetLine = nextLine, !.lineTree = T,
                       !.currentTargetIndex = 0,
                       !.game = newChess,
                       !.currentNode = NoNode, !.nodeTree = <<>>]

\* startNextLine up to its setTimeout: the alert and the return to edit mode
\* when no line is left, else the next line on a new board
selectNextLine(a, T) ==
    LET nextLine == findNextUnplayedLine(T, RootNode, a.completedLines)
    IN  IF nextLine = NoLine \/ nextLine = <<>>
        THEN [a EXCEPT !.notice = TRUE, !.mode = "edit"]
        ELSE [a EXCEPT !.currentTargetLine = nextLine, !.lineTree = T,
                       !.currentTargetIndex = 0,
                       !.game = newChess,
                       !.currentNode = NoNode, !.nodeTree = <<>>]

startNextLine(a, T) ==
    IF T = <<>> THEN a
    ELSE IF selectNextLine(a, T).notice THEN selectNextLine(a, T)
    ELSE setTimeout(selectNextLine(a, T), "autoPlay", Delay.autoPlay)

showFeedback(a, type) == [a EXCEPT !.feedback = type]

\* getCurrentExpectedMoves: the nodes and the tree they belong to
getCurrentExpectedMoves(a, T) ==
    IF T = <<>> THEN [tree |-> <<>>, children |-> <<>>]
    ELSE IF a.currentNode = NoNode
         THEN [tree |-> T, children |-> T[RootNode].children]
         ELSE [tree |-> a.nodeTree, children |-> a.nodeTree[a.currentNode].children]

\* expectedMoves.find((n) => n.move?.lan === move.lan), NoNode for undefined
findMatching(expected, move) ==
    LET hits == { k \in 1..Len(expected.children) :
                    expected.tree[expected.children[k]].move.lan = move.lan }
    IN  IF hits = {} THEN NoNode
        ELSE expected.children[CHOOSE k \in hits : \A j \in hits : k <= j]

\* completedLines.value = new Set([...completedLines.value, id])
complete(a, id) == [a EXCEPT !.completedLines = @ \cup {id}]

\* playOpponentMove.  game.move(nextMoveNode.move) on a position in which the
\* move is not legal throws or returns null, depending on the chess.js in
\* use: returnsNull tells which
playOpponentMove(a, returnsNull) ==
    IF a.currentTargetIndex >= Len(a.currentTargetLine)
    THEN setTimeout(IF a.currentNode # NoNode
                    THEN complete(a, a.nodeTree[a.currentNode].id)
                    ELSE a,
                    "startNextLine", Delay.endOfLine)
    ELSE LET nextMoveNode == a.currentTargetLine[a.currentTargetIndex + 1]
             move == objMove(a.game, a.lineTree[nextMoveNode].move)
         IN  IF move = NullMove /\ ~returnsNull THEN a
             ELSE LET a1 == [a EXCEPT !.game = IF move = NullMove THEN @
                                                ELSE applyMove(@, move),
                                      !.currentNode = nextMoveNode,
                                      !.nodeTree = a.lineTree,
                                      !.currentTargetIndex = @ + 1]
                  IN  IF a1.currentTargetIndex = Len(a1.currentTargetLine)
                      THEN setTimeout(complete(a1, a.lineTree[nextMoveNode].id),
                                      "startNextLine", Delay.lineDone)
                      ELSE a1

\* the node markVariationComplete ends at: children[0] down to a leaf
RECURSIVE firstChildLeaf(_, _)
firstChildLeaf(T, node) ==
    IF Len(T[node].children) = 0 THEN node
    ELSE firstChildLeaf(T, T[node].children[1])

\* handleMove in edit mode
handleMoveEdit(a, T, orig, dest) ==
    LET move == objMove(a.game, [from |-> orig, to |-> dest])
        expectedMoves == getCurrentExpectedMoves(a, T)
        matchingNode == findMatching(expectedMoves, move)
    IN  IF move = NullMove THEN a
        ELSE [a EXCEPT !.game = applyMove(@, move),
                       !.currentNode = matchingNode,
                       !.nodeTree = IF matchingNode # NoNode
                                    THEN expectedMoves.tree ELSE <<>>]

\* handleMoveCorrect without the advance of the target index
handleMoveCorrectKeepIndex(a, move) ==
    LET targetNode == a.currentTargetLine[a.currentTargetIndex + 1]
        a1 == [showFeedback(a, "correct")
                 EXCEPT !.game = applyMove(@, move),
                        !.currentNode = targetNode,
                        !.nodeTree = a.lineTree]
    IN  setTimeout(a1, "playOpponentMove", Delay.opponent)

\* handleMove in drill mode, the move matching the node at the target index
handleMoveCorrect(a, move) ==
    LET targetNode == a.currentTargetLine[a.currentTargetIndex + 1]
        a1 == [showFeedback(a, "correct")
                 EXCEPT !.game = applyMove(@, move),
                        !.currentNode = targetNode,
                        !.nodeTree = a.lineTree,
                        !.currentTargetIndex = @ + 1]
    IN  IF a1.currentTargetIndex = Len(a1.currentTargetLine)
        THEN setTimeout(complete(a1, a.lineTree[targetNode].id),
                        "startNextLine", Delay.lineDone)
        ELSE setTimeout(a1, "playOpponentMove", Delay.opponent)

\* handleMove in drill mode, the move matching another expected node
handleMoveVariation(a, move, expectedMoves, matchingNode) ==
    LET a1 == [showFeedback(a, "variation")
                 EXCEPT !.game = applyMove(@, move),
                        !.currentNode = matchingNode,
                        !.nodeTree = expectedMoves.tree]
        leaf == firstChildLeaf(expectedMoves.tree, matchingNode)
    IN  setTimeout(complete(a1, expectedMoves.tree[leaf].id),
                   "startNextLine", Delay.variation)

\* handleMoveWrong leaving the move on the board
handleMoveWrongNoUndo(a, move) ==
    [showFeedback(a, "wrong") EXCEPT !.game = applyMove(@, move)]

\* handleMove in drill mode, the move matching nothing: game.undo()
handleMoveWrong(a, move) ==
    [showFeedback(a, "wrong") EXCEPT !.game = undoMove(applyMove(@, move))]

handleMoveDrill(a, T, orig, dest) ==
    LET move == objMove(a.game, [from |-> orig, to |-> dest])
        hasTarget == a.currentTargetIndex + 1 <= Len(a.currentTargetLine)
        expectedMoves == getCurrentExpectedMoves(a, T)
        matchingNode == findMatching(expectedMoves, move)
    IN  IF move = NullMove THEN a
        ELSE IF /\ hasTarget
                /\ a.lineTree[a.currentTargetLine[a.currentTargetIndex + 1]].move.lan
                     = move.lan
             THEN handleMoveCorrect(a, move)
        ELSE IF matchingNode # NoNode
             THEN handleMoveVariation(a, move, expectedMoves, matchingNode)
        ELSE handleMoveWrong(a, move)

handleMove(a, T, orig, dest) ==
    IF a.mode = "edit" THEN handleMoveEdit(a, T, orig, dest)
    ELSE handleMoveDrill(a, T, orig, dest)

navigateToNode(a, T, node) ==
    IF a.mode # "edit" THEN a
    ELSE [a EXCEPT !.currentNode = node, !.nodeTree = T,
                   !.game = replayPath(T, node)]

\* the state a handler starts in: what the handler before it showed is gone
entry(a) == [a EXCEPT !.notice = FALSE, !.feedback = "none"]

(***************************************************************************)
(* Specification of the session on one study: it starts when selectStudy   *)
(* has loaded the study, and goes on with the user's actions on that       *)
(* study, the passing of time and the callbacks that become due.           *)
(***************************************************************************)
\* selectStudy on the session as constructed
selectStudy(a, s) ==
    [loadStudyTree([a EXCEPT !.study = s, !.playerColor = s.defaultColor])
       EXCEPT !.mode = "edit"]

DrillInit ==
    /\ pc = "session"
    /\ stack = <<>>
    /\ ret = NoCall
    /\ tk = TokIdle
    /\ sync = AppInit
    /\ store = StoreInit
    /\ \E s \in SessionStudies :
         /\ pgn = s.pgn
         /\ nodes \in StudyTrees[s]
         /\ app = selectStudy(AppInit, s)

MayAddTimer == Len(app.timers) < MaxTimers

\* the colour buttons
SetPlayerColor ==
    /\ app.study # NoStudy
    /\ \E c \in {"white", "black"} :
         /\ c # app.playerColor
         /\ app' = [entry(app) EXCEPT !.playerColor = c]
    /\ UNCHANGED <<pgn, pc, nodes, stack, ret, tk, sync, store>>

\* the Edit button
SwitchToEdit ==
    /\ app.study # NoStudy
    /\ app' = resetBoard([entry(app) EXCEPT !.mode = "edit"])
    /\ UNCHANGED <<pgn, pc, nodes, stack, ret, tk, sync, store>>

\* the Drill button
StartDrill ==
    /\ app.study # NoStudy
    /\ MayAddTimer
    /\ app' = IF nodes = <<>> THEN entry(app)
              ELSE startNextLine([entry(app) EXCEPT !.mode = "drill",
                                                    !.completedLines = {}],
                                 nodes)
    /\ UNCHANGED <<pgn, pc, nodes, stack, ret, tk, sync, store>>

\* the Restart Session button, shown in drill mode (totalLines is at least 1
\* once a tree was loaded: the root alone is a leaf)
ResetDrill ==
    /\ app.mode = "drill"
    /\ MayAddTimer
    /\ app' = startNextLine([entry(app) EXCEPT !.completedLines = {}], nodes)
    /\ UNCHANGED <<pgn, pc, nodes, stack, ret, tk, sync, store>>

\* the board reports a move: one of its dests, which are the legal moves, and
\* none in drill mode when it is not the player's turn
Report(m) ==
    /\ app.mode = "drill" => (isPlayerTurn(app) /\ MayAddTimer)
    /\ Len(app.game.history) < MaxPlies
    /\ app' = handleMove(entry(app), nodes, m.from, m.to)
    /\ UNCHANGED <<pgn, pc, nodes, stack, ret, tk, sync, store>>

HandleMove == \E m \in legalMoves(app.game.pos) : Report(m)

\* a click on a move of the tree panel, shown in edit mode
NavigateToNode ==
    /\ app.study # NoStudy
    /\ app.mode = "edit"
    /\ \E node \in 2..Len(nodes) : app' = navigateToNode(entry(app), nodes, node)
    /\ UNCHANGED <<pgn, pc, nodes, stack, ret, tk, sync, store>>

\* the callback that is due and was set first
DueTimer ==
    CHOOSE k \in 1..Len(app.timers) :
        /\ app.timers[k].due = 0
        /\ \A j \in 1..(k - 1) : app.timers[j].due # 0

withoutTimer(a, k) ==
    [a EXCEPT !.timers = SubSeq(@, 1, k - 1) \o SubSeq(@, k + 1, Len(@))]

\* the callback set by startNextLine: the first move is the opponent's
FireAutoPlay ==
    /\ \E k \in 1..Len(app.timers) : app.timers[k].due = 0
    /\ app.timers[DueTimer].cb = "autoPlay"
    /\ \E returnsNull \in BOOLEAN :
         app' = IF ~isPlayerTurn(app)
                THEN playOpponentMove(withoutTimer(entry(app), DueTimer), returnsNull)
                ELSE withoutTimer(entry(app), DueTimer)
    /\ UNCHANGED <<pgn, pc, nodes, stack, ret, tk, sync, store>>

FirePlayOpponentMove ==
    /\ \E k \in 1..Len(app.timers) : app.timers[k].due = 0
    /\ app.timers[DueTimer].cb = "playOpponentMove"
    /\ \E returnsNull \in BOOLEAN :
         app' = playOpponentMove(withoutTimer(entry(app), DueTimer), returnsNull)
    /\ UNCHANGED <<pgn, pc, nodes, stack, ret, tk, sync, store>>

FireStartNextLine ==
    /\ \E k \in 1..Len(app.timers) : app.timers[k].due = 0
    /\ app.timers[DueTimer].cb = "startNextLine"
    /\ app' = startNextLine(withoutTimer(entry(app), DueTimer), nodes)
    /\ UNCHANGED <<pgn, pc, nodes, stack, ret, tk, sync, store>>

\* 100 ms pass: no callback is due
Tick ==
    /\ app.timers # <<>>
    /\ \A k \in 1..Len(app.timers) : app.timers[k].due > 0
    /\ app' = [entry(app) EXCEPT
                 !.timers = [k \in 1..Len(@) |-> [@[k] EXCEPT !.due = @ - 1]]]
    /\ UNCHANGED <<pgn, pc, nodes, stack, ret, tk, sync, store>>

DrillNext ==
    \/ SetPlayerColor
    \/ SwitchToEdit
    \/ StartDrill
    \/ ResetDrill
    \/ HandleMove
    \/ NavigateToNode
    \/ FireAutoPlay
    \/ FirePlayOpponentMove
    \/ FireStartNextLine
    \/ Tick

DrillSpec == DrillInit /\ [][DrillNext]_vars

(***************************************************************************)
(* Vocabulary of the session properties.                                   *)
(***************************************************************************)
\* the line from node n down along first children, n excluded
RECURSIVE FirstChildren(_, _)
FirstChildren(T, n) ==
    IF T[n].children = <<>> THEN <<>>
    ELSE <<T[n].children[1]>> \o FirstChildren(T, T[n].children[1])

\* the first line of the tree (empty: the tree has no moves)
FirstLine(T) == FirstChildren(T, RootNode)

\* the node object at the target index (defined when HasTarget)
HasTarget == app.currentTargetIndex < Len(app.currentTargetLine)

Target == app.lineTree[app.currentTargetLine[app.currentTargetIndex + 1]]

\* the position on the board
Board == gameFen(app.game)

\* the callback the step has set, if it has set one
Scheduled(cb, delay) ==
    /\ app'.timers # <<>>
    /\ Last(app'.timers) = [cb |-> cb, due |-> delay]

(***************************************************************************)
(* C13 (start drill), under DrillSpec.                                     *)
(***************************************************************************)
\* the Drill button is pressed with a tree loaded
C13_Start ==
    (StartDrill /\ nodes # <<>>) =>
        /\ app'.completedLines = {}
        /\ FirstLine(nodes) = <<>> =>
             /\ app'.notice
             /\ app'.mode = "edit"
             /\ app'.timers = app.timers
        /\ FirstLine(nodes) # <<>> =>
             /\ ~app'.notice
             /\ app'.mode = "drill"
             /\ app'.currentTargetLine = FirstLine(nodes)
             /\ app'.lineTree = nodes
             /\ app'.currentTargetIndex = 0
             /\ gameFen(app'.game) = StartPosition
             /\ app'.currentNode = NoNode
             /\ Scheduled("autoPlay", Delay.autoPlay)

\* the delayed step of a line that has just started: the first move is
\* played when it is not the player's turn, and nothing happens otherwise
C13_FirstMove ==
    (FireAutoPlay /\ app.mode = "drill" /\ app.currentTargetIndex = 0
                  /\ Board = StartPosition /\ app.currentNode = NoNode) =>
        IF isPlayerTurn(app)
        THEN /\ app'.game = app.game
             /\ app'.currentNode = NoNode
             /\ app'.currentTargetIndex = 0
             /\ Len(app'.timers) = Len(app.timers) - 1
        ELSE /\ app'.currentTargetIndex = 1
             /\ app'.currentNode = app.currentTargetLine[1]
             /\ gameFen(app'.game) = Target.fen

\* C13: start drill on a loaded tree empties the completed set and selects
\* the first line of the tree; a tree without moves has none, and the drill
\* ends at once with the notice; otherwise that line is the target line at
\* index 0 on the starting position with no current node, and the first move
\* is played automatically exactly when the side to move is not the player's
\* colour
C13_StartDrill == [][C13_Start /\ C13_FirstMove]_vars

(***************************************************************************)
(* C14 (drill mode, the move of the target line), under DrillSpec.         *)
(***************************************************************************)
\* the lines of the tree as sequences of nodes
TreeLines(T) == { getAllLines(T, RootNode)[k] : k \in 1..Len(getAllLines(T, RootNode)) }

\* the board reports move m in drill mode, and m is the move of the node at
\* the target index
C14_Correct(m) ==
    (Report(m) /\ app.mode = "drill" /\ HasTarget /\ Target.move.lan = m.lan) =>
        /\ app'.feedback = "correct"
        /\ app'.currentNode = app.currentTargetLine[app.currentTargetIndex + 1]
        /\ app'.nodeTree = app.lineTree
        /\ app'.currentTargetLine = app.currentTargetLine
        /\ app'.currentTargetIndex = app.currentTargetIndex + 1
        /\ IF app'.currentTargetIndex = Len(app.currentTargetLine)
           THEN /\ app'.completedLines = app.completedLines \cup {Target.id}
                /\ Scheduled("startNextLine", Delay.lineDone)
           ELSE /\ app'.completedLines = app.completedLines
                /\ Scheduled("playOpponentMove", Delay.opponent)

\* the scheduled selection, when it runs on a loaded tree: the notice, or a
\* line of the tree, not completed, at index 0
C14_NextLine ==
    (FireStartNextLine /\ nodes # <<>>) =>
        \/ app'.notice /\ app'.mode = "edit"
        \/ /\ app'.currentTargetLine \in TreeLines(nodes)
           /\ app'.currentTargetLine # <<>>
           /\ nodes[Last(app'.currentTargetLine)].id \notin app.completedLines
           /\ app'.currentTargetIndex = 0

\* C14: in drill mode a reported move with the lan of the node at the target
\* index gets feedback "correct", makes that node the current node and
\* advances the index; when the index reaches the length of the line the
\* leaf's id is added to the completed set and the next line is selected
\* (800 ms later), else the opponent's next move is played next (500 ms
\* later)
C14_CorrectMove ==
    [][(\A m \in legalMoves(app.game.pos) : C14_Correct(m)) /\ C14_NextLine]_vars

\* the player has just made the last move of the target line
C14_Witness ==
    /\ app.mode = "drill"
    /\ app.feedback = "correct"
    /\ app.currentTargetIndex = Len(app.currentTargetLine)
    /\ app.nodeTree[app.currentNode].id \in app.completedLines
    /\ Last(app.timers) = [cb |-> "startNextLine", due |-> Delay.lineDone]

(***************************************************************************)
(* C15 (drill mode, a move of another branch), under DrillSpec.            *)
(***************************************************************************)
\* the children of the current tree position, and the tree they are nodes of
PositionTree == IF app.currentNode = NoNode THEN nodes ELSE app.nodeTree

PositionChildren ==
    IF nodes = <<>> THEN <<>>
    ELSE IF app.currentNode = NoNode THEN nodes[RootNode].children
    ELSE app.nodeTree[app.currentNode].children

\* the first child of the current tree position with the lan of m (0: none)
ChildWithLan(m) ==
    LET hits == { k \in 1..Len(PositionChildren) :
                    PositionTree[PositionChildren[k]].move.lan = m.lan }
    IN  IF hits = {} THEN NoNode
        ELSE PositionChildren[CHOOSE k \in hits : \A j \in hits : k <= j]

\* m is not the move of the node at the target index
OffTarget(m) == ~HasTarget \/ Target.move.lan # m.lan

\* the leaf below n along first children (n itself when it is a leaf)
LeafBelow(T, n) == IF FirstChildren(T, n) = <<>> THEN n ELSE Last(FirstChildren(T, n))

\* the board reports move m in drill mode, m is not the target move and is
\* the move of a child of the current tree position
C15_Variation(m) ==
    (Report(m) /\ app.mode = "drill" /\ OffTarget(m) /\ ChildWithLan(m) # NoNode) =>
        LET leaf == PositionTree[LeafBelow(PositionTree, ChildWithLan(m))]
        IN  /\ app'.feedback = "variation"
            /\ app'.completedLines = app.completedLines \cup {leaf.id}
            /\ app.currentTargetLine # <<>> =>
                 LET own == app.lineTree[Last(app.currentTargetLine)].id
                 IN  own \in app'.completedLines <=> own \in app.completedLines
            /\ app'.currentTargetLine = app.currentTargetLine
            /\ app'.currentTargetIndex = app.currentTargetIndex
            /\ Scheduled("startNextLine", Delay.variation)

\* the selection runs while the leaf of the target line is not completed:
\* the target line is selected again
C15_OfferedAgain ==
    (/\ FireStartNextLine
     /\ app.mode = "drill"
     /\ app.lineTree = nodes
     /\ app.currentTargetLine # <<>>
     /\ nodes[Last(app.currentTargetLine)].id \notin app.completedLines) =>
        /\ app'.currentTargetLine = app.currentTargetLine
        /\ app'.currentTargetIndex = 0
        /\ ~app'.notice

\* C15: in drill mode a reported move that is not the target move but has the
\* lan of a child of the current tree position gets feedback "variation" and
\* adds exactly one id to the completed set, that of the leaf reached from
\* the matched node along first children; the leaf of the target line is not
\* added, the selection is scheduled, and it selects the interrupted target
\* line again while that line's leaf is not completed
C15_VariationMove ==
    [][(\A m \in legalMoves(app.game.pos) : C15_Variation(m)) /\ C15_OfferedAgain]_vars

(***************************************************************************)
(* C16 (drill mode, a move the tree does not hold), under DrillSpec.       *)
(***************************************************************************)
\* the board reports move m in drill mode, and m is neither the target move
\* nor the move of a child of the current tree position
C16_Wrong(m) ==
    (Report(m) /\ app.mode = "drill" /\ OffTarget(m) /\ ChildWithLan(m) = NoNode) =>
        /\ app'.feedback = "wrong"
        /\ app'.game = app.game
        /\ app'.currentTargetLine = app.currentTargetLine
        /\ app'.lineTree = app.lineTree
        /\ app'.currentTargetIndex = app.currentTargetIndex
        /\ app'.currentNode = app.currentNode
        /\ app'.nodeTree = app.nodeTree
        /\ app'.completedLines = app.completedLines
        /\ app'.timers = app.timers
        /\ app'.mode = "drill"
        /\ isPlayerTurn(app')

\* C16: in drill mode a reported legal move that matches neither the target
\* node nor a child of the current tree position gets feedback "wrong"; the
\* board is back at the position before the attempt, target line, target
\* index, current node and completed set are unchanged, nothing is scheduled
\* and it is still the player's turn
C16_WrongMove == [][\A m \in legalMoves(app.game.pos) : C16_Wrong(m)]_vars

\* a wrong move has just been answered on a line in progress
C16_Witness ==
    /\ app.mode = "drill"
    /\ app.feedback = "wrong"
    /\ app.currentTargetLine # <<>>
    /\ isPlayerTurn(app)

(***************************************************************************)
(* C17 (the opponent's move, played by a callback), under DrillSpec.       *)
(***************************************************************************)
\* a callback runs playOpponentMove
AutoPlayStep ==
    \/ FireAutoPlay /\ ~isPlayerTurn(app)
    \/ FirePlayOpponentMove

\* the session awaits the opponent's move: drill mode, a node at the target
\* index, and the turn is not the player's
AwaitingOpponent == app.mode = "drill" /\ HasTarget /\ ~isPlayerTurn(app)

\* the target move as the board at hand accepts it (NullMove: it does not)
TargetMove == objMove(app.game, Target.move)

\* the callbacks pending apart from the one that runs
OtherTimers == withoutTimer(app, DueTimer).timers

C17_Applied ==
    /\ TargetMove # NullMove
    /\ app'.game = applyMove(app.game, TargetMove)
    /\ app'.currentNode = app.currentTargetLine[app.currentTargetIndex + 1]
    /\ app'.nodeTree = app.lineTree
    /\ app'.currentTargetIndex = app.currentTargetIndex + 1
    /\ app'.currentTargetLine = app.currentTargetLine

C17_Then ==
    IF app'.currentTargetIndex = Len(app.currentTargetLine)
    THEN /\ app'.completedLines = app.completedLines \cup {Target.id}
         /\ app'.timers = Append(OtherTimers, [cb |-> "startNextLine", due |-> Delay.lineDone])
    ELSE /\ app'.completedLines = app.completedLines
         /\ app'.timers = OtherTimers

\* C17: the callback that plays the opponent's move, run while the session
\* awaits that move, puts the move of the node at the target index on the
\* board, makes that node the current node and advances the index by one; at
\* the end of the line it adds the leaf's id to the completed set and
\* schedules the line selection, else it schedules nothing
C17_AutoPlay == [][(AutoPlayStep /\ AwaitingOpponent) => (C17_Applied /\ C17_Then)]_vars

\* the same, for a board that stands where the line stands: the position is
\* the one of the node before the target node
InStep ==
    gameFen(app.game) =
        IF app.currentTargetIndex = 0 THEN app.lineTree[RootNode].fen
        ELSE app.lineTree[app.currentTargetLine[app.currentTargetIndex]].fen

AutoPlayInStep ==
    [][(AutoPlayStep /\ AwaitingOpponent /\ InStep) => (C17_Applied /\ C17_Then)]_vars

(***************************************************************************)
(* C18 (all lines completed), under DrillSpec.                             *)
(***************************************************************************)
\* line selection finds no line to offer
NoMoreLines ==
    /\ nodes # <<>>
    /\ LET nextLine == findNextUnplayedLine(nodes, RootNode, app.completedLines)
       IN  nextLine = NoLine \/ nextLine = <<>>

\* C18 as stated: when line selection has just found no more lines (the
\* notice is shown), a reported move changes neither the board position nor
\* the current node, the target index or the completed set
C18_Terminal ==
    [][(HandleMove /\ app.notice) =>
          /\ gameFen(app'.game) = gameFen(app.game)
          /\ app'.currentNode = app.currentNode
          /\ app'.currentTargetIndex = app.currentTargetIndex
          /\ app'.completedLines = app.completedLines]_vars

\* the step ends with the notice: the session is back in edit mode
C18_BackToEdit == app'.notice => app'.mode = "edit"

\* a move reported in edit mode while no line is left to offer
C18_Report(m) ==
    (app.mode = "edit" /\ Report(m) /\ NoMoreLines) =>
        /\ app'.game = applyMove(app.game, m)
        /\ app'.currentTargetLine = app.currentTargetLine
        /\ app'.currentTargetIndex = app.currentTargetIndex
        /\ app'.completedLines = app.completedLines
        /\ app'.mode = "edit"

\* C18, amended: when line selection returns no more lines the session shows
\* the notice and is in edit mode; from then on every reported move is put on
\* the board as edit mode does and changes neither the target line, the
\* target index nor the completed set, and the session stays in edit mode
\* (until the Drill button starts a new drill)
C18_EditAfterCompletion ==
    [][C18_BackToEdit /\ \A m \in legalMoves(app.game.pos) : C18_Report(m)]_vars

\* both lines of "1. e4 e5 (1... d5)" were drilled to the end, and a move was
\* played on the board after the notice
C18_Witness ==
    /\ app.mode = "edit"
    /\ NoMoreLines
    /\ Cardinality(app.completedLines) = 2
    /\ app.currentTargetIndex = 2
    /\ Len(app.game.history) = 3

(***************************************************************************)
(* C19 (edit mode, moves on the board), under DrillSpec.                   *)
(***************************************************************************)
\* edit mode with the pointer cleared by a move off the tree: no current
\* node, and the board is not at the start position
OffTree ==
    /\ app.mode = "edit"
    /\ app.currentNode = NoNode
    /\ app.game.history # <<>>

C19_Edit(m) ==
    (app.mode = "edit" /\ Report(m)) =>
        /\ app'.game = applyMove(app.game, m)
        /\ ~OffTree =>
             /\ app'.currentNode = ChildWithLan(m)
             /\ app'.currentNode # NoNode => app'.nodeTree = PositionTree
        /\ OffTree => app'.currentNode = NoNode

\* C19: in edit mode every reported legal move is put on the board; the
\* current node becomes the child of the current tree node with the move's
\* lan, or none if there is no such child; and when the pointer was cleared
\* by a move off the tree, a reported move leaves it cleared
C19_EditMove == [][\A m \in legalMoves(app.game.pos) : C19_Edit(m)]_vars

\* the same without the last part: what a reported move does to the pointer
\* while the pointer is on the tree
EditMoveOnTree ==
    [][\A m \in legalMoves(app.game.pos) :
          (app.mode = "edit" /\ Report(m)) =>
              /\ app'.game = applyMove(app.game, m)
              /\ ~OffTree =>
                   /\ app'.currentNode = ChildWithLan(m)
                   /\ app'.currentNode # NoNode => app'.nodeTree = PositionTree]_vars

(***************************************************************************)
(* C20 (the delays).  Specification: two sessions on the same study and    *)
(* tree get the same user actions.  `app` is the session of App.vue, its   *)
(* callbacks run when their delay has passed; `sync` is the same session   *)
(* with every callback run at the moment setTimeout is called.  A user     *)
(* action (a colour button, Edit, Drill, Restart Session, a move on the    *)
(* board) is taken when the page offers it in both sessions.               *)
(***************************************************************************)
\* the callback cb runs on a
runCallback(a, cb, T) ==
    IF cb = "autoPlay"
    THEN IF ~isPlayerTurn(a) THEN playOpponentMove(a, FALSE) ELSE a
    ELSE IF cb = "playOpponentMove" THEN playOpponentMove(a, FALSE)
    ELSE startNextLine(a, T)

\* a handler has returned a: the callbacks it has set run at once, and so do
\* the callbacks these set
RECURSIVE runNow(_, _)
runNow(a, T) ==
    IF a.timers = <<>> THEN entry(a)
    ELSE runNow(runCallback(withoutTimer(a, 1), a.timers[1].cb, T), T)

RefineInit ==
    /\ pc = "session"
    /\ store = StoreInit
    /\ stack = <<>>
    /\ ret = NoCall
    /\ tk = TokIdle
    /\ \E s \in SessionStudies :
         /\ pgn = s.pgn
         /\ nodes \in StudyTrees[s]
         /\ app = selectStudy(AppInit, s)
         /\ sync = selectStudy(AppInit, s)

SyncSetPlayerColor ==
    /\ \E c \in {"white", "black"} :
         /\ c # app.playerColor
         /\ app' = [entry(app) EXCEPT !.playerColor = c]
         /\ sync' = [entry(sync) EXCEPT !.playerColor = c]
    /\ UNCHANGED <<pgn, pc, nodes, stack, ret, tk, store>>

SyncSwitchToEdit ==
    /\ app' = resetBoard([entry(app) EXCEPT !.mode = "edit"])
    /\ sync' = resetBoard([entry(sync) EXCEPT !.mode = "edit"])
    /\ UNCHANGED <<pgn, pc, nodes, stack, ret, tk, store>>

SyncStartDrill ==
    /\ MayAddTimer
    /\ app' = startNextLine([entry(app) EXCEPT !.mode = "drill",
                                               !.completedLines = {}], nodes)
    /\ sync' = runNow(startNextLine([entry(sync) EXCEPT !.mode = "drill",
                                                        !.completedLines = {}],
                                    nodes), nodes)
    /\ UNCHANGED <<pgn, pc, nodes, stack, ret, tk, store>>

SyncResetDrill ==
    /\ app.mode = "drill"
    /\ sync.mode = "drill"
    /\ MayAddTimer
    /\ app' = startNextLine([entry(app) EXCEPT !.completedLines = {}], nodes)
    /\ sync' = runNow(startNextLine([entry(sync) EXCEPT !.completedLines = {}], nodes),
                      nodes)
    /\ UNCHANGED <<pgn, pc, nodes, stack, ret, tk, store>>

\* the board of either session offers the move
SyncHandleMove ==
    /\ app.mode = "drill" => (isPlayerTurn(app) /\ MayAddTimer)
    /\ sync.mode = "drill" => isPlayerTurn(sync)
    /\ Len(app.game.history) < MaxPlies
    /\ Len(sync.game.history) < MaxPlies
    /\ \E m \in legalMoves(app.game.pos) \cap legalMoves(sync.game.pos) :
         /\ app' = handleMove(entry(app), nodes, m.from, m.to)
         /\ sync' = runNow(handleMove(entry(sync), nodes, m.from, m.to), nodes)
    /\ UNCHANGED <<pgn, pc, nodes, stack, ret, tk, store>>

RefineNext ==
    \/ SyncSetPlayerColor
    \/ SyncSwitchToEdit
    \/ SyncStartDrill
    \/ SyncResetDrill
    \/ SyncHandleMove
    \/ FireAutoPlay
    \/ FirePlayOpponentMove
    \/ FireStartNextLine
    \/ Tick

RefineSpec == RefineInit /\ [][RefineNext]_vars

\* the drill state of a session
DrillState(a) ==
    [mode |-> a.mode, currentTargetLine |-> a.currentTargetLine,
     currentTargetIndex |-> a.currentTargetIndex, currentNode |-> a.currentNode,
     completedLines |-> a.completedLines, fen |-> gameFen(a.game)]

\* C20: whatever the user did while callbacks were pending, once no callback
\* is pending the session is in the drill state (mode, target line, target
\* index, current node, completed set, board position) of the session that
\* ran every callback at the moment it was set
C20_DelaysDoNotMatter == app.timers = <<>> => DrillState(app) = DrillState(sync)

(***************************************************************************)
(* C23 (one root, and every position follows from the parent's), under     *)
(* Spec, in every state of the construction.                               *)
(***************************************************************************)
\* the first node is the only root: no move, no parent, the start position
OneRoot(T) ==
    /\ T[RootNode].move = NullMove
    /\ T[RootNode].parent = NoNode
    /\ T[RootNode].fen = StartPosition
    /\ \A h \in 2..Len(T) : T[h].move # NullMove /\ T[h].parent \in Handles(T)

\* the position of node h is its parent's position after the move of h
FenFollows(T, h) ==
    /\ T[h].move \in legalMoves(T[T[h].parent].fen)
    /\ T[h].fen = makeMove(T[T[h].parent].fen, T[h].move)

\* the evaluator of every running invocation stands at the position of the
\* invocation's attachment point
EvaluatorAtAttachment ==
    \A k \in 1..Len(stack) : gameFen(stack[k].game) = nodes[stack[k].currentParent].fen

\* C23: a tree under construction or built has exactly one root, with move
\* null and the starting position; the fen of every other node is the result
\* of its move on its parent's fen; and the evaluator of every invocation of
\* buildTree is at the position of the invocation's attachment point, before
\* every token
C23_PositionsFollow ==
    nodes # <<>> =>
        /\ OneRoot(nodes)
        /\ \A h \in 2..Len(nodes) : FenFollows(nodes, h)
        /\ EvaluatorAtAttachment

\* "1. e4 (1. d4 d5) e5" is built: e5 was attached under e4 after the return
\* from the variation
C23_Witness ==
    /\ Built
    /\ pgn = TextVariation
    /\ Len(nodes) = 5
    /\ nodes[5].parent = 2
    /\ nodes[5].fen = makeMove(nodes[2].fen, nodes[5].move)

(***************************************************************************)
(* C24 (isMainLine), under Spec.                                           *)
(***************************************************************************)
\* h is reached from the root by children[0] links only
RECURSIVE OnFirstChildPath(_, _)
OnFirstChildPath(T, h) ==
    \/ h = RootNode
    \/ /\ T[h].parent # NoNode
       /\ T[T[h].parent].children # <<>>
       /\ T[T[h].parent].children[1] = h
       /\ OnFirstChildPath(T, T[h].parent)

MainLineIsFirstChildPath(T) ==
    \A h \in Handles(T) : T[h].isMainLine <=> OnFirstChildPath(T, h)

\* buildTree, running for a variation, creates a node
VariationCreates == BuildMove /\ Len(stack) > 1

\* the node is the first one the invocation creates
FirstOfInvocation == Top(stack).currentParent = Top(stack).parentNode

C24_Created ==
    VariationCreates =>
        /\ nodes'[Len(nodes')].isMainLine = FALSE
        /\ FirstOfInvocation =>
             nodes'[Top(stack).parentNode].children[1] # Len(nodes')

\* C24: at every step of the construction, a node has isMainLine true exactly
\* when it is reached from the root through children[0] links only; a node
\* created by an invocation of buildTree for a variation (at any depth) has
\* isMainLine false, and the first node such an invocation creates is not at
\* index 0 of its parent's children
C24_MainLine ==
    [][(nodes' # <<>> => MainLineIsFirstChildPath(nodes')) /\ C24_Created]_vars

\* "1.e4 e5 (1...d5 2.d4 (2.Nf3 e5) e5) 2.Nf3" is built: d4 is the first child
\* of d5 inside the variation, and Nf3 continues the main line after it
C24_Witness ==
    /\ Built
    /\ pgn = TextNested
    /\ Len(nodes) = 9
    /\ nodes[4].children[1] = 5
    /\ ~nodes[5].isMainLine
    /\ ~nodes[7].isMainLine
    /\ nodes[9].isMainLine

(***************************************************************************)
(* C28 ("(" at an attachment point without parent), under Spec.            *)
(***************************************************************************)
\* "(" minus ")" among tokens[a..b] (positions from 1)
RECURSIVE ParenBalance(_, _, _)
ParenBalance(tokens, a, b) ==
    IF a > b THEN 0
    ELSE (IF tokens[a] = LeftParen THEN 1 ELSE IF tokens[a] = RightParen THEN 0 - 1 ELSE 0)
         + ParenBalance(tokens, a + 1, b)

\* the positions that close the "(" at position p
ClosersOf(tokens, p) ==
    { k \in (p + 1)..Len(tokens) :
        /\ ParenBalance(tokens, p, k) = 0
        /\ \A j \in p..(k - 1) : ParenBalance(tokens, p, j) > 0 }

\* the innermost invocation is at "(" and its attachment point has no parent
ParenAtRoot ==
    /\ BuildVariation
    /\ nodes[Top(stack).currentParent].parent = NoNode

\* C28: when buildTree meets "(" while its attachment point has no parent, the
\* step creates no node and no invocation and changes nothing of the running
\* invocation but its index, which, when the "(" has a matching ")", becomes
\* the index of the token after that ")"
C28_GroupSkipped ==
    [][ParenAtRoot =>
          /\ nodes' = nodes
          /\ pc' = pc
          /\ Len(stack') = Len(stack)
          /\ Pop(stack') = Pop(stack)
          /\ [Top(stack') EXCEPT !.i = Top(stack).i] = Top(stack)
          /\ \A k \in ClosersOf(Top(stack).tokens, Top(stack).i + 1) :
                 Top(stack').i = k]_vars

\* "( e4 ) d4" is built: the tree holds d4 alone
C28_Witness ==
    /\ Built
    /\ pgn = joinTokens(<<LeftParen, E4, RightParen, D4>>)
    /\ Len(nodes) = 2
    /\ nodes[2].san = D4
    /\ nodes[2].parent = RootNode

(***************************************************************************)
(* C29 (variations written one after the other), under Spec.               *)
(***************************************************************************)
\* C29: for "m (v1) (v2 r) c" with all moves legal, the children of m's
\* parent are m, v1, v2 in this order (also when v2 is the move of v1 or of
\* m), r is the child of v2 and c is the only child of m
C29_SiblingVariations ==
    Built =>
        \A x \in SiblingCases :
            pgn = SiblingText(x) =>
                /\ Len(nodes) = 6
                /\ ChildSans(nodes, RootNode) = <<x.m, x.v1, x.v2>>
                /\ nodes[RootNode].children = <<2, 3, 4>>
                /\ nodes[2].children = <<6>>
                /\ nodes[6].san = x.c
                /\ nodes[3].children = <<>>
                /\ nodes[4].children = <<5>>
                /\ nodes[5].san = x.r

\* "Nf3 (d4) (e4 d5) e5" is built
C29_Witness ==
    /\ Built
    /\ pgn = SiblingText([m |-> NF3, v1 |-> D4, v2 |-> E4, r |-> D5, c |-> E5])
    /\ ChildSans(nodes, RootNode) = <<NF3, D4, E4>>
    /\ Len(nodes) = 6

(***************************************************************************)
(* C30 (the token ")"), under Spec.                                        *)
(***************************************************************************)
\* C30: buildTree meets ")" only in the top-level invocation (inside a
\* variation every ")" is consumed by the scan of a "(" before it); the
\* invocation returns at once, parsePgnToTree returns with the tree as it is,
\* and no later token adds a node
C30_CloseParen ==
    [][BuildCloseParen =>
          /\ Len(stack) = 1
          /\ stack' = <<>>
          /\ pc' = "parsed"
          /\ nodes' = nodes]_vars

\* "e4 ) d4" is built: the tree holds e4 alone
C30_Witness ==
    /\ Built
    /\ pgn = joinTokens(<<E4, RightParen, D4>>)
    /\ Len(nodes) = 2
    /\ nodes[2].san = E4

(***************************************************************************)
(* C27 (the tree after construction).  Specification: a tree is built and  *)
(* queried (Spec), or a study's tree is loaded and the session runs on it  *)
(* (DrillSpec).                                                            *)
(***************************************************************************)
TreeInit == Init \/ DrillInit

TreeNext ==
    \/ Next
    \/ pc = "session" /\ SetPlayerColor
    \/ pc = "session" /\ SwitchToEdit
    \/ pc = "session" /\ StartDrill
    \/ pc = "session" /\ ResetDrill
    \/ pc = "session" /\ HandleMove
    \/ pc = "session" /\ NavigateToNode
    \/ pc = "session" /\ FireAutoPlay
    \/ pc = "session" /\ FirePlayOpponentMove
    \/ pc = "session" /\ FireStartNextLine
    \/ pc = "session" /\ Tick

TreeSpec == TreeInit /\ [][TreeNext]_vars

\* C27: once parsePgnToTree has returned, no step (a tree query, line
\* selection, navigation, a user move in edit or drill mode, the opponent's
\* move played by a callback) changes any field of any node of the tree, and
\* the nodes the session holds (target line, current node) are nodes of that
\* unchanged tree
C27_TreeImmutable ==
    [][(Built \/ pc = "session") =>
          /\ nodes' = nodes
          /\ app'.lineTree # <<>> => app'.lineTree = nodes
          /\ app'.nodeTree # <<>> => app'.nodeTree = nodes]_vars

\* a line of "1. e4 e5 (1... d5)" was drilled to its end: the session holds
\* the last node played, of the tree as built
C27_Witness ==
    /\ pc = "session"
    /\ app.completedLines # {}
    /\ app.currentNode # NoNode
    /\ app.nodeTree = nodes
    /\ app.lineTree = nodes

(***************************************************************************)
(* C25 (edit mode: no scoring, no move played by the program), under       *)
(* DrillSpec.                                                              *)
(***************************************************************************)
\* a step that begins and ends in edit mode and is not the Drill button
EditStep == app.mode = "edit" /\ app'.mode = "edit" /\ ~StartDrill

\* a callback puts a move on the board
PlaysMove ==
    /\ FireAutoPlay \/ FirePlayOpponentMove
    /\ app'.game # app.game

\* C25: in edit mode the completed set does not change and no callback plays
\* a move onto the board, whatever callbacks were pending when edit mode was
\* entered
C25_EditModeQuiet ==
    [][EditStep => (app'.completedLines = app.completedLines /\ ~PlaysMove)]_vars

\* the same for the moves the user makes in edit mode and the other actions
\* of the user
EditModeUserQuiet ==
    [][(EditStep /\ ~FireAutoPlay /\ ~FirePlayOpponentMove /\ ~FireStartNextLine)
          => app'.completedLines = app.completedLines]_vars

(***************************************************************************)
(* The collection of studies: loadStudies, saveStudies, createStudy,       *)
(* updateStudy, deleteStudy, and the handlers of App.vue that call them.   *)
(* The stored entry is a text over the characters of JsonChars, parsed as  *)
(* JSON.parse parses it, or the text saveStudies wrote for a list of       *)
(* studies, which reads back as that list.                                 *)
(***************************************************************************)
\* longest stored text that the session did not write itself
MaxStoredChars == 4
\* most studies of the collection
MaxStudies == 2
\* last value of the clock
MaxNow == 2

JsonChars == {"[", "]", ",", "1"}

StoredTexts == UNION { [1..n -> JsonChars] : n \in 0..MaxStoredChars }

Unreadable == [kind |-> "unreadable"]

StoredItems ==
    {NoItem, Unreadable} \cup { [kind |-> "text", text |-> t] : t \in StoredTexts }

\* what a call gave: an exception, or a value that is a number, an array or a
\* list of studies
Raised == [threw |-> TRUE, kind |-> "none", value |-> <<>>]

Gave(v, k) == [threw |-> FALSE, kind |-> k, value |-> v]

JsonFail == [end |-> 0, kind |-> "none", value |-> <<>>]

RECURSIVE jsonNumber(_, _, _)
\* the digits from position p on, n being the value of those before p
jsonNumber(t, p, n) ==
    IF p <= Len(t) /\ t[p] = "1" THEN jsonNumber(t, p + 1, 10 * n + 1)
    ELSE [end |-> p, kind |-> "number", value |-> n]

RECURSIVE jsonValue(_, _)
RECURSIVE jsonElements(_, _, _)
\* the JSON value that starts at position p and the position after it
jsonValue(t, p) ==
    IF p > Len(t) THEN JsonFail
    ELSE IF t[p] = "1" THEN jsonNumber(t, p, 0)
    ELSE IF t[p] = "["
         THEN IF p + 1 <= Len(t) /\ t[p + 1] = "]"
              THEN [end |-> p + 2, kind |-> "array", value |-> <<>>]
              ELSE jsonElements(t, p + 1, <<>>)
    ELSE JsonFail

\* the elements of an array from position p on, up to its bracket
jsonElements(t, p, acc) ==
    LET v == jsonValue(t, p) IN
    IF v.end = 0 \/ v.end > Len(t) THEN JsonFail
    ELSE IF t[v.end] = "]"
         THEN [end |-> v.end + 1, kind |-> "array", value |-> Append(acc, v.value)]
    ELSE IF t[v.end] = "," THEN jsonElements(t, v.end + 1, Append(acc, v.value))
    ELSE JsonFail

\* JSON.parse: the value of the whole text, or a SyntaxError
JSONparse(t) ==
    LET v == jsonValue(t, 1) IN
    IF v.end = Len(t) + 1 THEN Gave(v.value, v.kind) ELSE Raised

\* the body of the try block of loadStudies
tryLoadStudies(item) ==
    IF item.kind = "unreadable" THEN Raised
    ELSE IF item.kind = "none" THEN Gave(<<>>, "studies")
    ELSE IF item.kind = "saved" THEN Gave(item.studies, "studies")
    ELSE IF item.text = <<>> THEN Gave(<<>>, "studies")
    ELSE JSONparse(item.text)

loadStudiesNoCatch(item) == tryLoadStudies(item)

loadStudies(item) ==
    IF tryLoadStudies(item).threw THEN Gave(<<>>, "studies") ELSE tryLoadStudies(item)

\* saveStudies: the entry after setItem
saveStudies(item, studies) ==
    IF item.kind = "unreadable" THEN item
    ELSE [kind |-> "saved", studies |-> studies]

StudyFields == {"id", "name", "pgn", "defaultColor", "createdAt", "updatedAt"}

\* generateId for a study of the collection: empty, the id of another study,
\* or an id no study carries
studyIds(studies) ==
    {""} \cup { studies[k].id : k \in DOMAIN studies }
         \cup { "s" \o ToString(Len(studies) + 1) }

createStudy(name, text, color, id, now) ==
    [id |-> id, name |-> name, pgn |-> text, defaultColor |-> color,
     createdAt |-> now, updatedAt |-> now]

\* the value of field f in {...study, ...updates}
spread(study, updates, f) ==
    IF f \in DOMAIN updates THEN updates[f] ELSE study[f]

updateStudy(study, updates, now) ==
    [id |-> spread(study, updates, "id"),
     name |-> spread(study, updates, "name"),
     pgn |-> spread(study, updates, "pgn"),
     defaultColor |-> spread(study, updates, "defaultColor"),
     createdAt |-> spread(study, updates, "createdAt"),
     updatedAt |-> now]

deleteStudy(studies, id) == SelectSeq(studies, LAMBDA s : s.id # id)

\* the ids of a parse are drawn anew: the ids of a tree loaded while the
\* session still holds nodes of earlier trees carry a tag none of those has
retagId(g, id) == IF g = 0 \/ id = "" THEN id ELSE ToString(g) \o "." \o id

retag(T, g) ==
    [h \in DOMAIN T |->
        IF h = RootNode THEN T[h] ELSE [T[h] EXCEPT !.id = retagId(g, @)]]

carriesTag(T, g) ==
    \E h \in 2..Len(T), j \in 1..Len(T) : T[h].id = retagId(g, ToString(j))

freshTag(a, T) ==
    CHOOSE g \in 0..3 :
        /\ \A X \in {T, a.lineTree, a.nodeTree} : ~carriesTag(X, g)
        /\ \A k \in 0..(g - 1) :
              \E X \in {T, a.lineTree, a.nodeTree} : carriesTag(X, k)

StudyNames == {"a"}

\* the texts of the forms of StudyManager, trimmed
StudyTexts == {TextReplies, ZZ9}

TreesOfText == [text \in StudyTexts |-> parsePgnToTreeRuns(text)]

\* the trees parsePgnToTree may return to loadStudyTree
loadTrees(text, a, T) ==
    { retag(X, freshTag(a, T)) : X \in TreesOfText[text] }

Colors == {"white", "black"}

\* onMounted, and the watcher of studies
Mount ==
    /\ pc = "session"
    /\ ~store.mounted
    /\ LET r == loadStudies(store.item) IN
         /\ store' = [store EXCEPT
                        !.mounted = TRUE,
                        !.usable = (r.kind = "studies" \/ (r.kind = "array" /\ Len(r.value) = 0)),
                        !.studies = r.value,
                        !.item = saveStudies(@, r.value)]
    /\ UNCHANGED <<pgn, pc, nodes, stack, ret, tk, app, sync>>

Ready == pc = "session" /\ store.mounted /\ store.usable

\* the Initialize Study button of the create form
HandleCreateStudy ==
    /\ Ready
    /\ Len(store.studies) < MaxStudies
    /\ \E name \in StudyNames, text \in StudyTexts, color \in Colors,
          id \in studyIds(store.studies) :
         LET study == createStudy(name, text, color, id, store.now) IN
         /\ store' = [store EXCEPT !.studies = Append(@, study),
                                   !.item = saveStudies(@, Append(store.studies, study))]
         /\ app' = selectStudy(entry(app), study)
         /\ pgn' = text
         /\ nodes' \in loadTrees(text, app, nodes)
    /\ UNCHANGED <<pc, stack, ret, tk, sync>>

\* a click on a study of the list
SelectStudy ==
    /\ Ready
    /\ \E k \in DOMAIN store.studies :
         /\ app' = selectStudy(entry(app), store.studies[k])
         /\ pgn' = store.studies[k].pgn
         /\ nodes' \in loadTrees(store.studies[k].pgn, app, nodes)
    /\ UNCHANGED <<pc, stack, ret, tk, sync, store>>

\* what saveEdit emits for the study of the list that is being edited
EditPayloads(studies) ==
    { [studies[k] EXCEPT !.name = name, !.pgn = text, !.defaultColor = color] :
        k \in DOMAIN studies, name \in StudyNames,
        text \in StudyTexts, color \in Colors }

IsCurrent(a, id) == a.study # NoStudy /\ a.study.id = id

\* the map of handleUpdateStudy
updatedStudies(studies, study, now) ==
    [k \in DOMAIN studies |->
        IF studies[k].id = study.id
        THEN updateStudy(studies[k], study, now) ELSE studies[k]]

\* the Save Changes button of the edit form
HandleUpdateStudy(study) ==
    /\ Ready
    /\ store' = [store EXCEPT
                   !.studies = updatedStudies(@, study, store.now),
                   !.item = saveStudies(@, updatedStudies(store.studies, study, store.now))]
    /\ IF IsCurrent(app, study.id)
       THEN /\ app' = [loadStudyTree([entry(app) EXCEPT !.study = study])
                          EXCEPT !.playerColor = study.defaultColor]
            /\ pgn' = study.pgn
            /\ nodes' \in loadTrees(study.pgn, app, nodes)
       ELSE /\ app' = entry(app)
            /\ UNCHANGED <<pgn, nodes>>
    /\ UNCHANGED <<pc, stack, ret, tk, sync>>

UpdateStudy ==
    /\ Ready
    /\ \E study \in EditPayloads(store.studies) : HandleUpdateStudy(study)

\* the delete button of a study of the list, confirmed
HandleDeleteStudy ==
    /\ Ready
    /\ \E k \in DOMAIN store.studies :
         LET id == store.studies[k].id IN
         /\ store' = [store EXCEPT
                        !.studies = deleteStudy(@, id),
                        !.item = saveStudies(@, deleteStudy(store.studies, id))]
         /\ IF IsCurrent(app, id)
            THEN /\ app' = resetBoard([entry(app) EXCEPT !.study = NoStudy])
                 /\ nodes' = <<>>
            ELSE /\ app' = entry(app)
                 /\ nodes' = nodes
    /\ UNCHANGED <<pgn, pc, stack, ret, tk, sync>>

\* Date.now() gives a later value
ClockAdvance ==
    /\ pc = "session"
    /\ store.now < MaxNow
    /\ store' = [store EXCEPT !.now = @ + 1]
    /\ UNCHANGED <<pgn, pc, nodes, stack, ret, tk, app, sync>>

StoreInit0 ==
    /\ pgn = <<>>
    /\ pc = "session"
    /\ nodes = <<>>
    /\ stack = <<>>
    /\ ret = NoCall
    /\ tk = TokIdle
    /\ app = AppInit
    /\ sync = AppInit
    /\ store \in { [StoreInit EXCEPT !.item = i] : i \in StoredItems }

StoreNext ==
    \/ Mount
    \/ HandleCreateStudy
    \/ SelectStudy
    \/ UpdateStudy
    \/ HandleDeleteStudy
    \/ ClockAdvance

(***************************************************************************)
(* Specification of the collection: the session from its construction,     *)
(* with any stored entry, and beside it loadStudies and updateStudy called *)
(* on any stored entry, any study and any updates value.                   *)
(***************************************************************************)
\* an updates value: any of the fields of a study, with other values
OtherStudy ==
    [id |-> "other", name |-> "b", pgn |-> <<>>, defaultColor |-> "black",
     createdAt |-> 0, updatedAt |-> 0]

Updates == { [f \in S |-> OtherStudy[f]] : S \in SUBSET StudyFields }

\* the studies updateStudy is called on
CalledStudies ==
    { [createStudy("a", text, color, id, 1) EXCEPT !.updatedAt = u] :
        text \in StudyTexts, color \in Colors, id \in {"", "s1"}, u \in 1..MaxNow }

CallInit ==
    /\ pgn = <<>>
    /\ pc = "call"
    /\ nodes = <<>>
    /\ stack = <<>>
    /\ ret = NoCall
    /\ tk = TokIdle
    /\ app = AppInit
    /\ sync = AppInit
    /\ store \in { [StoreInit EXCEPT !.item = i] : i \in StoredItems }
              \cup { [StoreInit EXCEPT !.studies = <<s>>, !.now = MaxNow] :
                       s \in CalledStudies }

CallLoadStudies ==
    /\ pc = "call"
    /\ store.studies = <<>>
    /\ ret' = [fn |-> "loadStudies", item |-> store.item,
               val |-> loadStudies(store.item)]
    /\ UNCHANGED <<pgn, pc, nodes, stack, tk, app, sync, store>>

CallUpdateStudy ==
    /\ pc = "call"
    /\ \E k \in DOMAIN store.studies, updates \in Updates :
         ret' = [fn |-> "updateStudy", study |-> store.studies[k],
                 updates |-> updates, now |-> store.now,
                 val |-> updateStudy(store.studies[k], updates, store.now)]
    /\ UNCHANGED <<pgn, pc, nodes, stack, tk, app, sync, store>>

StoreSpec ==
    /\ StoreInit0 \/ CallInit
    /\ [][StoreNext \/ CallLoadStudies \/ CallUpdateStudy]_vars

\* the stored entry gives loadStudies no list: there is no entry, it cannot be
\* read, or its text is not JSON
Fails(item) ==
    \/ item.kind \in {"none", "unreadable"}
    \/ item.kind = "text" /\ JSONparse(item.text).threw

\* C22: loadStudies never propagates an error: when the store has no entry
\* under the key, when reading it fails, or when the stored text cannot be
\* parsed, loadStudies returns the empty list of studies.
C22_LoadStudies ==
    ret.fn = "loadStudies" =>
        /\ ~ret.val.threw
        /\ Fails(ret.item) => (ret.val.kind = "studies" /\ Len(ret.val.value) = 0)

\* loadStudies was called on a text that breaks off inside an array
C22_Witness ==
    /\ ret.fn = "loadStudies"
    /\ ret.item = [kind |-> "text", text |-> <<"[", "1", ",">>]
    /\ ret.val.value = <<>>

\* loadStudies was called where reading the store raises
LoadedUnreadable == ret.fn = "loadStudies" /\ ret.item = Unreadable

KeepsIdentity(before, after, now) ==
    /\ after.id = before.id
    /\ after.createdAt = before.createdAt
    /\ after.updatedAt = now

EditedInPlace(study) ==
    \A k \in DOMAIN store.studies :
        IF store.studies[k].id = study.id
        THEN KeepsIdentity(store.studies[k], store'.studies[k], store.now)
        ELSE store'.studies[k] = store.studies[k]

\* C21: editing a study changes neither its id nor its creation timestamp:
\* for every study and every updates value, updateStudy(study, updates)
\* returns a record with the id and the createdAt of study and with updatedAt
\* set to the time of the edit; and so do the studies of the collection after
\* handleUpdateStudy.
C21_Identity ==
    [][/\ ret'.fn = "updateStudy" => KeepsIdentity(ret'.study, ret'.val, ret'.now)
       /\ \A study \in (IF Ready THEN EditPayloads(store.studies) ELSE {}) :
             HandleUpdateStudy(study) => EditedInPlace(study)]_vars

DistinctStudyIds ==
    \A j, k \in DOMAIN store.studies : store.studies[j].id = store.studies[k].id => j = k

\* the same for the updates that carry neither id nor createdAt, and for the
\* collections whose studies have different ids
EditKeepsIdentity ==
    [][/\ (ret'.fn = "updateStudy" /\ DOMAIN ret'.updates \cap {"id", "createdAt"} = {})
            => KeepsIdentity(ret'.study, ret'.val, ret'.now)
       /\ \A study \in (IF Ready /\ DistinctStudyIds
                        THEN EditPayloads(store.studies) ELSE {}) :
             HandleUpdateStudy(study) => EditedInPlace(study)]_vars

\* handleUpdateStudy alone, on any collection
HandlerKeepsIdentity ==
    [][\A study \in (IF Ready THEN EditPayloads(store.studies) ELSE {}) :
             HandleUpdateStudy(study) => EditedInPlace(study)]_vars

(***************************************************************************)
(* Specification of the session with reloads: a collection of one study,   *)
(* selected, and then the actions of the session on the study together     *)
(* with those that parse a text again or drop the tree.                    *)
(***************************************************************************)
\* the study of the collection: "1. e4 e5 (1... d5)" for black
ReloadStudy == createStudy("a", TextReplies, "black", "s1", 1)

\* most callbacks pending in a session with reloads
MaxReloadTimers == 1

\* most nodes of a tree of such a session whose id is empty or a repeat
MaxReloadIrregularIds == 0

\* the nodes of T whose id is not one drawn anew
repeatedIds(T) ==
    { h \in 2..Len(T) : \A g \in 0..3 : T[h].id # retagId(g, ToString(h - 1)) }

\* most moves on the board of such a session
MaxReloadPlies == 2

ReloadBound ==
    /\ Len(app.timers) <= MaxReloadTimers
    /\ Len(app.game.history) <= MaxReloadPlies
    /\ Cardinality(repeatedIds(nodes)) <= MaxReloadIrregularIds

ReloadInit ==
    /\ pc = "session"
    /\ stack = <<>>
    /\ ret = NoCall
    /\ tk = TokIdle
    /\ sync = AppInit
    /\ store = [StoreInit EXCEPT !.mounted = TRUE,
                                 !.studies = <<ReloadStudy>>,
                                 !.item = saveStudies(@, <<ReloadStudy>>)]
    /\ pgn = TextReplies
    /\ nodes \in TreesOfText[TextReplies]
    /\ app = selectStudy(AppInit, ReloadStudy)
    /\ ReloadBound

ReloadNext ==
    \/ SwitchToEdit /\ ReloadBound'
    \/ StartDrill /\ ReloadBound'
    \/ ResetDrill /\ ReloadBound'
    \/ HandleMove /\ ReloadBound'
    \/ FireAutoPlay /\ ReloadBound'
    \/ FirePlayOpponentMove /\ ReloadBound'
    \/ FireStartNextLine /\ ReloadBound'
    \/ Tick /\ ReloadBound'
    \/ SelectStudy /\ ReloadBound'
    \/ UpdateStudy /\ ReloadBound'
    \/ HandleDeleteStudy /\ ReloadBound'

ReloadSpec == ReloadInit /\ [][ReloadNext]_vars

\* a step that parses the text of a study again: a study is selected, or the
\* selected study is updated
Reparsed ==
    \/ SelectStudy
    \/ \E study \in EditPayloads(store.studies) :
          IsCurrent(app, study.id) /\ HandleUpdateStudy(study)

\* the target line is made of nodes of a tree that is not the loaded one
StaleLine(a, T) == a.currentTargetLine # <<>> /\ a.lineTree # T

\* the current node is a node of a tree that is not the loaded one
StaleNode(a, T) == a.currentNode # NoNode /\ a.nodeTree # T

\* the ids of the nodes of the trees the session holds beside the loaded one
OldIds(a, T) ==
    UNION { { X[h].id : h \in 2..Len(X) } : X \in {a.lineTree, a.nodeTree} \ {T, <<>>} }

\* C26: after the text of a study is parsed again (a study is selected, or the
\* selected study is updated, in either mode) no state of the session refers
\* to the discarded tree: the current node is none, the completed set is
\* empty, the target line holds no node of the old tree, and no later step
\* adds the id of a node of an old tree to the completed set or plays the
\* move of a node of an old tree.
C26_NoStaleTree ==
    [][/\ Reparsed => /\ app'.currentNode = NoNode
                       /\ app'.completedLines = {}
                       /\ ~StaleLine(app', nodes')
       /\ (app'.completedLines \ app.completedLines) \cap OldIds(app, nodes) = {}
       /\ ~StaleNode(app', nodes')]_vars

\* the part of it about the current node and the completed set at the reload
ReparseResets ==
    [][Reparsed => (app'.currentNode = NoNode /\ app'.completedLines = {})]_vars

\* the part of it about the target line at the reload
ReparseDropsLine == [][Reparsed => ~StaleLine(app', nodes')]_vars

\* the parts of it about the later steps
NoOldIdCompleted ==
    [][(app'.completedLines \ app.completedLines) \cap OldIds(app, nodes) = {}]_vars

NoOldNodeCurrent == [][~StaleNode(app', nodes')]_vars

\* the later steps of the user alone, in a session that never had a callback
\* pending while a text was parsed again
NoOldNodeByUser ==
    [][(app.timers = <<>> /\ HandleMove /\ ~StaleLine(app, nodes))
          => ~StaleNode(app', nodes')]_vars

(***************************************************************************)
(* Termination of buildTree, the nodes it creates, and the shape of the    *)
(* tree.                                                                   *)
(***************************************************************************)
\* one iteration of the while loop of the innermost invocation
LoopIteration == BuildVariation \/ BuildMove \/ BuildSkip

\* the frame of the invocation that made the step, after the step
IteratedFrame == stack'[Len(stack)]

RECURSIVE Variant(_)
\* twice the tokens the running invocations still have before them, and one
\* for each invocation
Variant(st) ==
    IF st = <<>> THEN 0
    ELSE 2 * (Len(Top(st).tokens) - Top(st).i) + 1 + Variant(Pop(st))

moveTokens(tokens) == { k \in 1..Len(tokens) : isMoveToken(tokens[k]) }

C31_IndexGrows == LoopIteration => IteratedFrame.i > Top(stack).i

C31_CallShorter ==
    (BuildVariation /\ Len(stack') > Len(stack))
        => Len(Top(stack').tokens) < Len(Top(stack).tokens)

C31_Decreases ==
    (pc = "build" /\ pc' \in {"build", "parsed"} /\ stack' # stack)
        => (Variant(stack') < Variant(stack) /\ Variant(stack') >= 0)

C31_Bounded ==
    nodes # <<>> =>
        Len(nodes) - 1 <= Cardinality(moveTokens(tokenize(cleanPgn(pgn))))

\* C31: parsePgnToTree terminates for every text: in buildTree the token
\* index grows with every iteration of the loop and every recursive call gets
\* a shorter token sequence than its caller, so that a measure of the running
\* invocations decreases with every step; the tree has at most one node
\* beside the root for each move token.
C31_Terminates ==
    []C31_Bounded /\ [][C31_IndexGrows /\ C31_CallShorter /\ C31_Decreases]_vars

\* a variation is being built inside a variation, and the tree is built later
C31_Witness == pc = "build" /\ Len(stack) = 3 /\ Top(stack).i > 0

C32_OneNode ==
    BuildMove =>
        LET cp == Top(stack).currentParent
            h  == Len(nodes) + 1
        IN  /\ Len(nodes') = h
            /\ nodes'[cp].children = Append(nodes[cp].children, h)
            /\ nodes'[h].parent = cp
            /\ nodes'[h].children = <<>>
            /\ nodes'[h].san = sanMove(Top(stack).game, curToken(stack)).san
            /\ \A x \in Handles(nodes) \ {cp} : nodes'[x] = nodes[x]
            /\ nodes'[cp] = [nodes[cp] EXCEPT !.children = nodes'[cp].children]
            /\ Top(stack').currentParent = h

C32_NoOtherNode == (pc = "build" /\ ~BuildMove) => nodes' = nodes

\* C32: every move token the evaluator accepts creates one new node, appended
\* as the last child of the attachment point, and the attachment point moves
\* to it; no node there is reused, changed or merged, also when the
\* attachment point has a child with the same move; no other step of
\* buildTree creates a node, so that there are as many nodes beside the root
\* as accepted move tokens.
C32_NodePerAcceptedToken == [][C32_OneNode /\ C32_NoOtherNode]_vars

\* a node has two children with the same move
C32_Witness ==
    /\ Built
    /\ \E p \in Handles(nodes) :
         /\ Len(nodes[p].children) = 2
         /\ nodes[nodes[p].children[1]].san = nodes[nodes[p].children[2]].san

\* the places of node h in the children of the nodes
Occurrences(T, h) ==
    { <<p, k>> \in Handles(T) \X (1..Len(T)) :
        k <= Len(T[p].children) /\ T[p].children[k] = h }

RECURSIVE ReachedFrom(_, _, _)
\* the nodes reached from those of S through children, in at most n steps
ReachedFrom(T, S, n) ==
    IF n = 0 THEN S
    ELSE ReachedFrom(T, S \cup UNION { { T[p].children[k] : k \in 1..Len(T[p].children) } : p \in S },
                     n - 1)

RECURSIVE ClimbsToRoot(_, _, _)
\* following parent from h reaches the root in at most n steps
ClimbsToRoot(T, h, n) ==
    IF h = RootNode THEN TRUE
    ELSE IF n = 0 \/ h = NoNode THEN FALSE
    ELSE ClimbsToRoot(T, T[h].parent, n - 1)

WellFormed(T) ==
    /\ T[RootNode].parent = NoNode
    /\ Occurrences(T, RootNode) = {}
    /\ \A h \in 2..Len(T) :
         /\ Cardinality(Occurrences(T, h)) = 1
         /\ \A o \in Occurrences(T, h) : o[1] = T[h].parent
         /\ ClimbsToRoot(T, h, Len(T))
    /\ ReachedFrom(T, {RootNode}, Len(T)) = Handles(T)

\* C38: every tree of parsePgnToTree, built or under construction, is well
\* formed: the root has no parent, every other node occurs once in the
\* children of one node, which is its parent, every node is reached from the
\* root through children, and the parents of a node lead to the root.
C38_WellFormed == nodes # <<>> => WellFormed(nodes)

\* a built tree with a variation inside a variation
C38_Witness ==
    /\ pc = "parsed"
    /\ \E h \in Handles(nodes) :
         /\ ~nodes[h].isMainLine
         /\ Len(nodes[h].children) = 2

(***************************************************************************)
(* The side the auto-play step moves for.                                  *)
(***************************************************************************)
\* C35: every move the auto-play step puts on the board is a move of the side
\* that is not the user's: when a callback plays the node at the target index,
\* the side to move before it differs from playerColor, whatever the user did
\* while the callback was pending.
C35_OpponentSideOnly == [][PlaysMove => ~isPlayerTurn(app)]_vars

\* the same for the callback of startNextLine alone, which looks at the turn
AutoPlayOpponentSide ==
    [][(FireAutoPlay /\ app'.game # app.game) => ~isPlayerTurn(app)]_vars

(***************************************************************************)
(* The target index and the board.                                         *)
(***************************************************************************)
IndexInLine(a) ==
    0 <= a.currentTargetIndex /\ a.currentTargetIndex <= Len(a.currentTargetLine)

\* the board and the current node are those after the first index moves of
\* the target line
BoardAtIndex(a) ==
    IF a.currentTargetIndex = 0
    THEN a.currentNode = NoNode /\ gameFen(a.game) = rootRecord.fen
    ELSE /\ a.currentNode = a.currentTargetLine[a.currentTargetIndex]
         /\ a.nodeTree = a.lineTree
         /\ gameFen(a.game) = a.lineTree[a.currentNode].fen

\* a move of the user can be accepted: drill mode, and the user's turn
AcceptsUserMove(a) == a.mode = "drill" /\ isPlayerTurn(a)

\* C36: in drill mode the target index is between 0 and the length of the
\* target line, and whenever a move of the user can be accepted the board
\* shows the first index moves of the target line: at index 0 the starting
\* position and no current node, at index k > 0 the node k - 1 of the line
\* as current node and its position on the board.
C36_IndexAndBoard ==
    app.mode = "drill" =>
        /\ IndexInLine(app)
        /\ AcceptsUserMove(app) => BoardAtIndex(app)

\* the part of it about the index
IndexStaysInLine == app.mode = "drill" => IndexInLine(app)

\* the same while no callback is pending
BoardAtIndexWhenQuiet ==
    (AcceptsUserMove(app) /\ app.timers = <<>>) => BoardAtIndex(app)

(***************************************************************************)
(* The completed set, the current node and the loaded tree.                *)
(***************************************************************************)
\* the ids of the leaves of T; a tree of the root alone has the root as leaf
LeafIdsOf(T) == { T[h].id : h \in { x \in Handles(T) : T[x].children = <<>> } }

\* C33: in every state of the session, whatever the order of selecting,
\* updating and deleting studies, starting and restarting the drill, switching
\* to edit, the user's moves and the callbacks, every id of the completed set
\* is the id of a leaf of the loaded tree, so that there are never more
\* completed ids than lines of that tree.
C33_CompletedAreLeaves ==
    nodes # <<>> =>
        /\ app.completedLines \subseteq LeafIdsOf(nodes)
        /\ Cardinality(app.completedLines) <= Len(getLeafNodes(nodes, RootNode))

\* C34: in every state, in both modes, when there is a current node the board
\* shows the position of that node, and the node is one of the loaded tree.
C34_CurrentNodeOnBoard ==
    app.currentNode # NoNode =>
        /\ app.nodeTree = nodes
        /\ gameFen(app.game) = app.nodeTree[app.currentNode].fen

\* the part of it about the position
CurrentNodeFen ==
    app.currentNode # NoNode => gameFen(app.game) = app.nodeTree[app.currentNode].fen

\* the same of the session that runs every callback at the moment it is set
SyncCompletedLeaves ==
    nodes # <<>> => sync.completedLines \subseteq LeafIdsOf(nodes)

SyncDrillNodeFen ==
    (sync.mode = "drill" /\ sync.currentNode # NoNode)
        => gameFen(sync.game) = sync.nodeTree[sync.currentNode].fen

(***************************************************************************)
(* Specification of one drill: the session right after startDrill on a     *)
(* selected study whose tree has a move, with either colour; the user      *)
(* plays the move of the node at the target index and does nothing else,   *)
(* time passes and every callback that is due fires.                       *)
(***************************************************************************)
\* startDrill on a loaded tree
startDrill(a, T) ==
    startNextLine([entry(a) EXCEPT !.mode = "drill", !.completedLines = {}], T)

LiveInit ==
    /\ pc = "session"
    /\ stack = <<>>
    /\ ret = NoCall
    /\ tk = TokIdle
    /\ sync = AppInit
    /\ store = StoreInit
    /\ \E s \in SessionStudies, c \in Colors :
         /\ pgn = s.pgn
         /\ nodes \in StudyTrees[s]
         /\ Len(nodes) > 1
         /\ app = startDrill([selectStudy(AppInit, s) EXCEPT !.playerColor = c], nodes)

\* the user plays the move of the node at the target index
PlayTarget ==
    /\ app.mode = "drill"
    /\ HasTarget
    /\ \E m \in legalMoves(app.game.pos) : m.lan = Target.move.lan /\ Report(m)

LiveNext ==
    \/ PlayTarget
    \/ FireAutoPlay
    \/ FirePlayOpponentMove
    \/ FireStartNextLine
    \/ Tick

LiveSpec ==
    /\ LiveInit
    /\ [][LiveNext]_vars
    /\ WF_vars(PlayTarget)
    /\ WF_vars(FireAutoPlay)
    /\ WF_vars(FirePlayOpponentMove)
    /\ WF_vars(FireStartNextLine)
    /\ WF_vars(Tick)

AllLines == getAllLines(nodes, RootNode)

\* the line selected is the one after those completed, in getAllLines order
C37_First ==
    (app.mode = "drill" /\ app.completedLines = {}) => app.currentTargetLine = AllLines[1]

C37_Order ==
    (FireStartNextLine /\ app'.mode = "drill") =>
        /\ Cardinality(app.completedLines) < Len(AllLines)
        /\ app'.currentTargetLine = AllLines[Cardinality(app.completedLines) + 1]
        /\ app'.currentTargetLine # app.currentTargetLine

C37_Done ==
    /\ app.notice
    /\ app.mode = "edit"
    /\ app.completedLines = LeafIdsOf(nodes)

\* C37: after startDrill on a tree with a move, when the user always plays
\* the target move on their turn and does nothing else, and every callback
\* fires, every line of the tree becomes the target line once, in
\* getAllLines order, every leaf id gets into the completed set, and the
\* drill reports completion.
C37_DrillCompletes == []C37_First /\ [][C37_Order]_vars /\ <>C37_Done

\* the parts of it
LinesInOrder == []C37_First /\ [][C37_Order]_vars

EventuallyDone == <>C37_Done

EventuallyReported == <>(app.notice /\ app.mode = "edit")
====
